---- MODULE Spec2Model ----
(***************************************************************************)
(* A model of the content-extractor orchestration layer:                   *)
(*   RateLimiter              sliding-window admission control             *)
(*   ContentExtractorService  extract / _extract / extractBatch with the   *)
(*                            result cache, the in-flight map, the plugin  *)
(*                            hook chain and the lifecycle listeners.      *)
(* Every await of the source is a separate step of the model; the code     *)
(* between two awaits is one atomic action (single-threaded event loop).   *)
(***************************************************************************)
EXTENDS Integers, Sequences, FiniteSets, TLC

(***************************************************************************)
(* Bounds of the model.  Times are counted in clock ticks; the limiter's   *)
(* quota and window, the ttl, the fetch timeout and the LRU capacity are   *)
(* the program's parameters at a reduced scale.                            *)
(***************************************************************************)
MaxTime == 2
\* RateLimiter.maxRequests (10 in the program)
maxRequests == 2
\* RateLimiter.windowMs (60000 ms in the program)
windowMs == 2
\* number of checkLimit / getRemainingRequests calls of the limiter-only runs
MaxRLCalls == 4
\* number of chunks the heap has room for
HeapChunks == 4
\* cacheOptions.ttl (3600000 ms in the program)
ttl == 2
\* capacity of the LRU cache (max: 100 in the program)
CacheMax == 1
\* options.timeout || 30000, in ticks
FetchTimeout == 1
\* extract() calls of one run
MaxCalls == 3
\* registered plugins
MaxPlugins == 2
\* extract() calls of the runs with plugins
PluginCalls == 1
\* calls of the runs with the direct entry points
DirectCalls == 2
\* elements of the documents handed to detect()
MaxElements == 3

(***************************************************************************)
(* Sequence helpers                                                        *)
(***************************************************************************)
Range(s) == {s[i] : i \in DOMAIN s}

(***************************************************************************)
(* Inputs                                                                  *)
(***************************************************************************)
\* A URL string is the pair <<hostname, path>>; a string that new URL()
\* cannot parse is a tuple of another length.
BadUrl == <<"not a url">>
Urls == {<<"a", "1">>, <<"a", "2">>, <<"b", "1">>, BadUrl}

\* keys handed to the limiter: the hostnames of the URLs
LimiterKeys == {"a", "b"}

\* ExtractionOptions values: omitted, or the empty object {}
Undefined == <<"undefined">>
EmptyObject == <<"object">>

CallIds == 1..MaxCalls

\* ContentExtractorPlugin objects, by name:
\*   "p" has beforeExtract and afterExtract, "q" has afterExtract only,
\*   "x" has both hooks and its hooks may throw
PluginNames == {"p", "q", "x"}

VARIABLES
    now,                 \* Date.now()
    requests,            \* RateLimiter.requests : key -> admitted timestamps
    rlLog,               \* history of the limiter calls of the limiter-only runs
    cacheOptions,        \* ContentExtractorService.cacheOptions
    cache,               \* the LRU cache, least recently used entry first
    persistentCache,     \* the secondary store: set of [key, value]
    cacheHits,
    cacheMisses,
    pendingExtractions,  \* pendingKey -> the call whose _extract promise it holds
    plugins,             \* registered plugins, in registration order
    calls,               \* the extract() calls: position, arguments, outcome
    extraction,          \* the _extract promise started by each call
    fetchCount,          \* network fetches issued so far, per URL
    cacheLog,            \* per written key: time of the last write, keys used since
    microtasks,          \* the event loop's queue of promise continuations (FIFO)
    batch,               \* the running extractBatch call
    adapters,            \* the module-level adapter registry, in registration order
    registryCall,        \* the last call of the registry's API, with what it returned
    detection,           \* a detect() call: its input, options and result
    cleaning,            \* a clean() call: the nodes of the documents and its result
    contentCall,         \* a call of a method that only reads a content record
    duplicates,          \* the running findDuplicates call
    stream,              \* the generator of an extractStream call
    stats                \* what the last getCacheStats call returned

rlVars == <<requests, rlLog>>
toolVars == <<cleaning, contentCall, duplicates, stream, stats>>
libVars == <<adapters, registryCall, detection, toolVars>>
svcVars == <<cacheOptions, cache, persistentCache, cacheHits, cacheMisses,
             pendingExtractions, plugins, calls, extraction, fetchCount, cacheLog,
             microtasks>>
vars == <<now, requests, rlLog, cacheOptions, cache, persistentCache, cacheHits,
          cacheMisses, pendingExtractions, plugins, calls, extraction, fetchCount,
          cacheLog, microtasks, batch, adapters, registryCall, detection, cleaning,
          contentCall, duplicates, stream, stats>>

(***************************************************************************)
(* RateLimiter                                                             *)
(***************************************************************************)
\* the mutant keeps a timestamp for one tick too long (<= instead of <)
InWindowInclusive(time, t) == t - time <= windowMs

\* the filter predicate of checkLimit and getRemainingRequests
InWindow(time, t) == t - time < windowMs

\* requests.get(key) || [] filtered to the trailing window
validRequests(reqs, key, t) ==
    SelectSeq(reqs[key], LAMBDA time : InWindow(time, t))

\* validRequests.length >= this.maxRequests
LimitReached(valid) == Len(valid) >= maxRequests

\* the mutant records the timestamp before it decides
checkLimitRecordFirst(reqs, key, t) ==
    LET valid == validRequests(reqs, key, t) IN
    [ok |-> ~LimitReached(valid), requests |-> [reqs EXCEPT ![key] = Append(valid, t)]]

\* checkLimit(key) at time t: the answer and the new timestamp map
checkLimit(reqs, key, t) ==
    LET valid == validRequests(reqs, key, t) IN
    IF LimitReached(valid)
    THEN [ok |-> FALSE, requests |-> reqs]
    ELSE [ok |-> TRUE, requests |-> [reqs EXCEPT ![key] = Append(valid, t)]]

\* the mutant counts every stored timestamp, without the filter
getRemainingRequestsUnfiltered(reqs, key, t) ==
    LET left == maxRequests - Len(reqs[key]) IN
    IF left > 0 THEN left ELSE 0

\* getRemainingRequests(key) at time t: stores nothing
getRemainingRequests(reqs, key, t) ==
    LET valid == validRequests(reqs, key, t)
        left == maxRequests - Len(valid) IN
    IF left > 0 THEN left ELSE 0

\* the mutant records the query as a request
requestsAfterQueryRecorded(reqs, key, t) == checkLimit(reqs, key, t).requests

\* this.requests after getRemainingRequests(key): the method filters a local
\* copy and writes nothing back
requestsAfterQuery(reqs, key, t) == reqs

(***************************************************************************)
(* Values of the service                                                   *)
(***************************************************************************)
NoContent ==
    [page |-> << >>, pre |-> << >>, post |-> << >>, title |-> << >>, cleanText |-> << >>,
     paragraphs |-> << >>, fingerprint |-> << >>]
NoError == [kind |-> "none", info |-> ""]
Err(kind, info) == [kind |-> kind, info |-> info]

\* new URL(url) succeeds
ValidUrl(url) == Len(url) = 2

\* new URL(url).hostname
hostname(url) == url[1]

\* getRateLimitInfo(url) of a well-formed URL
resetDelay == 60000
getRateLimitInfo(reqs, url, t) ==
    [remaining |-> getRemainingRequests(reqs, hostname(url), t),
     resetTime |-> t + resetDelay]

\* JSON.stringify of an options object
stringify(options) == <<"json", options>>

\* crypto.SHA256(str).toString(): injective on the strings of the model
hashString(str) == <<"sha256", str>>

\* `${url}_${JSON.stringify(options || {})}`
pendingKeyOf(url, options) ==
    <<url, stringify(IF options = Undefined THEN EmptyObject ELSE options)>>

\* getCacheKey: `${url}_${hashString(options ? JSON.stringify(options) : 'default')}`
getCacheKey(url, options) ==
    <<url, hashString(IF options # Undefined THEN stringify(options) ELSE <<"default">>)>>

\* Strings are sequences of runs: Chars(c, n) is the character c written n
\* times, and no two adjacent runs of a string have the same character, so
\* two strings are equal exactly when their sequences are.
Chars(c, n) == IF n = 0 THEN << >> ELSE <<[c |-> c, n |-> n]>>

\* str + other
concat(str, other) ==
    IF str = << >> THEN other
    ELSE IF other = << >> THEN str
    ELSE IF str[Len(str)].c = other[1].c
         THEN SubSeq(str, 1, Len(str) - 1)
                 \o <<[c |-> other[1].c, n |-> str[Len(str)].n + other[1].n]>>
                 \o Tail(other)
         ELSE str \o other

RECURSIVE length(_)
\* str.length
length(str) == IF str = << >> THEN 0 ELSE Head(str).n + length(Tail(str))

RECURSIVE take(_, _)
\* the first k characters
take(str, k) ==
    IF str = << >> \/ k <= 0 THEN << >>
    ELSE IF Head(str).n >= k THEN Chars(Head(str).c, k)
    ELSE <<Head(str)>> \o take(Tail(str), k - Head(str).n)

RECURSIVE drop(_, _)
\* the string without its first k characters
drop(str, k) ==
    IF str = << >> \/ k <= 0 THEN str
    ELSE IF Head(str).n > k THEN <<[c |-> Head(str).c, n |-> Head(str).n - k]>> \o Tail(str)
    ELSE drop(Tail(str), k - Head(str).n)

\* str.slice(start, end) for 0 <= start <= end
slice(str, start, end) == drop(take(str, end), start)

fingerprintLength == 1000

\* generateFingerprint: text = content.cleanText.slice(0, 1000);
\* hashString(text + content.title)
generateFingerprint(content) ==
    hashString(concat(slice(content.cleanText, 0, fingerprintLength), content.title))

\* what extractEnhanced reads off a page: the path of the URL names the
\* article, and a mirror serves the same article under another host
extractEnhanced(content) ==
    LET article == content.page[1][2] IN
    [content EXCEPT
        !.paragraphs = [i \in 1..(IF article = "1" THEN 3 ELSE 11) |->
                           [index |-> i - 1, words |-> i + 1]],
        !.title = IF article = "1" THEN Chars("t", 1) ELSE Chars("u", 1),
        !.cleanText = IF article = "1"
                      THEN concat(Chars("x", fingerprintLength), Chars("y", 1))
                      ELSE Chars("x", 40)]

(***************************************************************************)
(* The LRU cache (lru-cache 10, max entries CacheMax, ttl)                 *)
(* An entry is [key, value, start]; value is {content, timestamp}.         *)
(***************************************************************************)
cacheIndex(c, key) ==
    IF \E i \in DOMAIN c : c[i].key = key
    THEN CHOOSE i \in DOMAIN c : c[i].key = key
    ELSE 0

cacheWithout(c, key) == SelectSeq(c, LAMBDA e : e.key # key)

\* LRUCache.set: the entry becomes the most recently used one and the least
\* recently used entries are evicted down to the capacity
lruSet(c, key, value, t) ==
    LET put == Append(cacheWithout(c, key), [key |-> key, value |-> value, start |-> t]) IN
    IF Len(put) > CacheMax THEN SubSeq(put, Len(put) - CacheMax + 1, Len(put)) ELSE put

\* LRUCache.get: a stale entry (older than ttl) is deleted and undefined is
\* returned; a live entry becomes the most recently used one
lruGet(c, key, t) ==
    LET i == cacheIndex(c, key) IN
    IF i = 0 THEN [found |-> FALSE, value |-> [content |-> NoContent, timestamp |-> 0],
                   cache |-> c]
    ELSE IF t - c[i].start > ttl
         THEN [found |-> FALSE, value |-> [content |-> NoContent, timestamp |-> 0],
               cache |-> cacheWithout(c, key)]
         ELSE [found |-> TRUE, value |-> c[i].value,
               cache |-> Append(cacheWithout(c, key), c[i])]

\* the mutant still serves an entry whose age equals ttl (<= instead of <)
IsFreshInclusive(timestamp, t) == t - timestamp <= ttl

\* the mutant compares the age in the wrong unit and expires an entry early
IsFreshEarly(timestamp, t) == t - timestamp < ttl - 1

\* age < this.cacheOptions.ttl
IsFresh(timestamp, t) == t - timestamp < ttl

persistentGet(pc, key) ==
    IF \E e \in pc : e.key = key
    THEN [found |-> TRUE, value |-> (CHOOSE e \in pc : e.key = key).value]
    ELSE [found |-> FALSE, value |-> [content |-> NoContent, timestamp |-> 0]]

\* the mutant never consults the secondary store
getFromCachePrimaryOnly(c, pc, opts, url, options, t) ==
    LET key == getCacheKey(url, options)
        got == lruGet(c, key, t) IN
    IF got.found /\ IsFresh(got.value.timestamp, t)
    THEN [hit |-> TRUE, content |-> got.value.content, cache |-> got.cache]
    ELSE [hit |-> FALSE, content |-> NoContent, cache |-> got.cache]

\* getFromCache(url, options) at time t: the content or null, and the cache after
getFromCache(c, pc, opts, url, options, t) ==
    LET key == getCacheKey(url, options)
        got == lruGet(c, key, t)
        sec == persistentGet(pc, key) IN
    IF got.found /\ IsFresh(got.value.timestamp, t)
    THEN [hit |-> TRUE, content |-> got.value.content, cache |-> got.cache]
    ELSE IF opts.persistent /\ sec.found /\ IsFresh(sec.value.timestamp, t)
         THEN [hit |-> TRUE, content |-> sec.value.content,
               cache |-> lruSet(got.cache, key, sec.value, t)]
         ELSE [hit |-> FALSE, content |-> NoContent, cache |-> got.cache]

\* saveToCache(url, options, content) at time t
saveToCache(c, pc, opts, url, options, content, t) ==
    LET key == getCacheKey(url, options)
        entry == [content |-> content, timestamp |-> t] IN
    [cache |-> lruSet(c, key, entry, t),
     persistentCache |-> IF opts.persistent
                         THEN {e \in pc : e.key # key} \cup {[key |-> key, value |-> entry]}
                         ELSE pc]

\* bookkeeping of the cache uses, for the statements about eviction: a key
\* that is written restarts its record; a key that is used enters the record
\* of every other written key
LogUse(log, key) ==
    {IF r.key = key THEN r ELSE [r EXCEPT !.others = @ \cup {key}] : r \in log}

LogSet(log, key, t) ==
    {r \in LogUse(log, key) : r.key # key} \cup {[key |-> key, time |-> t, others |-> {}]}

(***************************************************************************)
(* The plugin hook chain                                                   *)
(***************************************************************************)
HasBefore(p) == p \in {"p", "x"}
HasAfter(p) == p \in {"p", "q", "x"}
MayThrow(p) == p = "x"

\* what a hook returns: its input with the plugin's mark appended
ApplyHook(p, value) == Append(value, p)

\* the mutant runs the hooks last registered first
HookOrderReversed(ps) == [i \in 1..Len(ps) |-> ps[Len(ps) + 1 - i]]

\* for (const plugin of this.plugins): iteration in array order
HookOrder(ps) == ps

RECURSIVE RunChain(_, _, _)
\* the loop over the plugins from position i on, value being the output of the
\* previous hook: the set of possible outcomes (a hook of "x" may throw)
RunChain(ps, kind, st) ==
    IF st.i > Len(ps) THEN {[threw |-> FALSE, value |-> st.value]}
    ELSE LET p == ps[st.i]
             has == IF kind = "before" THEN HasBefore(p) ELSE HasAfter(p) IN
         IF ~has THEN RunChain(ps, kind, [i |-> st.i + 1, value |-> st.value])
         ELSE (IF MayThrow(p) THEN {[threw |-> TRUE, value |-> st.value]} ELSE {})
              \cup RunChain(ps, kind, [i |-> st.i + 1, value |-> ApplyHook(p, st.value)])

\* lines 314-318 and 325-329: the hooks of one kind over this.plugins
RunHooks(ps, kind, value) == RunChain(HookOrder(ps), kind, [i |-> 1, value |-> value])

(***************************************************************************)
(* Calls and extractions                                                   *)
(***************************************************************************)
NoResult == [success |-> FALSE, data |-> NoContent, error |-> NoError,
             partial |-> Undefined]
Success(content) == [success |-> TRUE, data |-> content, error |-> NoError,
                     partial |-> Undefined]
Failure(error) == [success |-> FALSE, data |-> NoContent, error |-> error,
                   partial |-> Undefined]

\* an invocation of a listener of the call's events object: onStart(),
\* onComplete(content) or onError(error)
OnStart == [name |-> "onStart", content |-> NoContent, error |-> NoError]
OnComplete(content) == [name |-> "onComplete", content |-> content, error |-> NoError]
OnError(error) == [name |-> "onError", content |-> NoContent, error |-> error]

\* entry is the method that was called, heard the list of the invocations of
\* the call's listeners so far
IdleCall == [pc |-> "idle", url |-> << >>, options |-> Undefined, events |-> FALSE,
             admitted |-> FALSE, waitsFor |-> 0, result |-> NoResult, threw |-> FALSE,
             live |-> {}, busy |-> {}, entry |-> "extract", heard |-> << >>]

\* the mutant invokes each listener once per call at most
HearsOnce(call, invocation) ==
    IF call.events /\ \A i \in DOMAIN call.heard : call.heard[i].name # invocation.name
    THEN [call EXCEPT !.heard = Append(@, invocation)]
    ELSE call

\* events?.onX?.(...): the call after the invocation
Hears(call, invocation) ==
    IF call.events THEN [call EXCEPT !.heard = Append(@, invocation)] ELSE call

NoExtraction == [phase |-> "none", hit |-> FALSE, content |-> NoContent,
                 error |-> NoError, t0 |-> 0, fetched |-> 0, waiters |-> << >>,
                 seenBefore |-> << >>, seenAfter |-> << >>]

Settled(e) == e.phase \in {"resolved", "rejected"}
Running(e) == e.phase \in {"cacheWait", "fetching", "reading", "extracting", "saving"}
Outstanding(call) == call.pc \in {"limit", "awaitOwn", "awaitShared"}

\* a listener of the call's events object is invoked: it returns, or it throws
ListenerOutcomes(call) == IF call.events THEN {"ok", "throw"} ELSE {"ok"}

\* the mutant lets a failure escape instead of returning it
CatchRethrow(call, error) == {[call EXCEPT !.pc = "rejected", !.result = NoResult]}

\* the catch block of extract (lines 206-213): onError, then the tagged failure
Catch(call, error) ==
    {[Hears(call, OnError(error)) EXCEPT !.pc = "done", !.result = Failure(error)]}
    \cup (IF call.events
          THEN {[Hears(call, OnError(error)) EXCEPT !.pc = "rejected", !.threw = TRUE]}
          ELSE {})

(***************************************************************************)
(* The adapter registry                                                     *)
(***************************************************************************)
\* A URL string is abstracted to the sequence of the fragments it contains; a
\* pattern is a regular expression without flags for one literal fragment, so
\* pattern.test(url) is "the fragment occurs in the URL".
test(pattern, url) == \E i \in 1..Len(url) : url[i] = pattern

\* adapter.patterns.some((pattern) => pattern.test(url))
matchesUrl(adapter, url) ==
    \E i \in 1..Len(adapter.patterns) : test(adapter.patterns[i], url)

\* the optional number priority: the empty set when the property is missing,
\* else the set of the number
NoPriority == {}
Priority(n) == {n}

\* (adapter.priority || 0)
priorityOf(adapter) ==
    IF adapter.priority = NoPriority THEN 0 ELSE CHOOSE n \in adapter.priority : TRUE

SiteAdapter(name, patterns, priority, extract) ==
    [name |-> name, patterns |-> patterns, priority |-> priority, extract |-> extract]

\* the adapter classes of the repository
WikipediaAdapter ==
    SiteAdapter("wikipedia", <<"wikipedia.org", "wikimedia.org">>, Priority(10), "builtin")
RedditAdapter == SiteAdapter("reddit", <<"reddit.com", "redd.it">>, Priority(10), "builtin")
TwitterAdapter == SiteAdapter("twitter", <<"twitter.com", "x.com">>, Priority(10), "builtin")
LinkedInAdapter == SiteAdapter("linkedin", <<"linkedin.com">>, Priority(10), "builtin")
SubstackAdapter ==
    SiteAdapter("substack", <<".substack.com", "substack.com">>, Priority(10), "builtin")

\* MediumAdapter, GenericNewsAdapter and GitHubAdapter: their names are
\* distinct from every other built-in name, and their priorities are drawn
\* by the initial state
UnseenPriorities == {NoPriority, Priority(10)}
MediumAdapter(priority) == SiteAdapter("medium", <<"medium.com">>, priority, "builtin")
GenericNewsAdapter(priority) == SiteAdapter("generic-news", <<"news">>, priority, "builtin")
GitHubAdapter(priority) == SiteAdapter("github", <<"github.com">>, priority, "builtin")

\* const adapters: SiteAdapter[] = [ ... ]
builtinAdapters(pm, pn, pg) ==
    << MediumAdapter(pm), SubstackAdapter, GenericNewsAdapter(pn), GitHubAdapter(pg),
       WikipediaAdapter, LinkedInAdapter, RedditAdapter, TwitterAdapter >>

Null == [null |-> TRUE]

\* Array.prototype.sort is stable: an element is placed after the elements
\* the comparator does not order after it
insertByPriority(sorted, adapter) ==
    LET k == Cardinality({i \in 1..Len(sorted) :
                             priorityOf(sorted[i]) >= priorityOf(adapter)})
    IN  SubSeq(sorted, 1, k) \o <<adapter>> \o SubSeq(sorted, k + 1, Len(sorted))

RECURSIVE sortStable(_)
sortStable(as) ==
    IF as = << >> THEN << >>
    ELSE insertByPriority(sortStable(SubSeq(as, 1, Len(as) - 1)), as[Len(as)])

\* the mutant leaves the registry order as it is
sortedAdaptersUnsorted(as) == as

\* [...adapters].sort((a, b) => (b.priority || 0) - (a.priority || 0))
sortedAdapters(as) == sortStable(as)

\* the first adapter of the sorted copy with a matching pattern, else null
getSiteAdapter(as, url) ==
    LET sorted == sortedAdapters(as)
        hits == {i \in 1..Len(sorted) : matchesUrl(sorted[i], url)}
    IN  IF hits = {} THEN Null
        ELSE sorted[CHOOSE i \in hits : \A j \in hits : i <= j]

\* adapters.findIndex((a) => a.name === name): 0 stands for -1
findIndex(as, name) ==
    LET hits == {i \in 1..Len(as) : as[i].name = name}
    IN  IF hits = {} THEN 0 ELSE CHOOSE i \in hits : \A j \in hits : i <= j

\* the mutant always appends
registerAdapterPush(as, adapter) == Append(as, adapter)

registerAdapter(as, adapter) ==
    LET existingIndex == findIndex(as, adapter.name)
    IN  IF existingIndex # 0 THEN [as EXCEPT ![existingIndex] = adapter]
        ELSE Append(as, adapter)

\* adapters.splice(index, 1)
splice(as, index) == SubSeq(as, 1, index - 1) \o SubSeq(as, index + 1, Len(as))

\* the mutant removes the entry and reports that nothing was removed
unregisterAdapterSilent(as, name) ==
    LET index == findIndex(as, name)
    IN  [adapters |-> IF index # 0 THEN splice(as, index) ELSE as, result |-> FALSE]

\* the registry after the call, and the value the call returns
unregisterAdapter(as, name) ==
    LET index == findIndex(as, name)
    IN  IF index # 0 THEN [adapters |-> splice(as, index), result |-> TRUE]
        ELSE [adapters |-> as, result |-> FALSE]

getRegisteredAdapters(as) == as

clearAdapters(as) == << >>

getAdapterByName(as, name) ==
    LET index == findIndex(as, name) IN IF index = 0 THEN Null ELSE as[index]

\* a call of the registry's API: its argument, the index it found, its result
RegistryCall(op, arg, index, result) ==
    [op |-> op, arg |-> arg, index |-> index, result |-> result]
NoRegistryCall == RegistryCall("none", Undefined, 0, Undefined)

(***************************************************************************)
(* ParagraphDetector                                                        *)
(***************************************************************************)
\* A text is known by its first character, its last character and its
\* length; extractText returns it trimmed, so neither end is white space.
Text(first, last, len) == [first |-> first, last |-> last, len |-> len]

\* current.text += '\n' + p.text
joinText(t1, t2) == Text(t1.first, t2.last, t1.len + 1 + t2.len)

\* a DOMRect; right and bottom are derived
DOMRect(left, top, width, height) ==
    [left |-> left, top |-> top, width |-> width, height |-> height]
right(b) == b.left + b.width
bottom(b) == b.top + b.height
Min(a, b) == IF a <= b THEN a ELSE b
Max(a, b) == IF a >= b THEN a ELSE b

\* array.slice(start, end): a negative index counts from the end
sliceArray(array, start, end) ==
    LET from == IF start < 0 THEN Max(Len(array) + start, 0) ELSE Min(start, Len(array))
        to == IF end < 0 THEN Max(Len(array) + end, 0) ELSE Min(end, Len(array)) IN
    SubSeq(array, from + 1, to)

mergeBounds(b1, b2) ==
    DOMRect(Min(b1.left, b2.left), b1.top,
            Max(right(b1), right(b2)) - Min(b1.left, b2.left),
            bottom(b2) - b1.top)

\* an element found by findParagraphElements: its tag, its text and its box
Element(tagName, text, bounds) == [tagName |-> tagName, text |-> text, bounds |-> bounds]

isQuote(element) == element.tagName = "BLOCKQUOTE"
isCode(element) == element.tagName \in {"CODE", "PRE"}
isHeading(element) == element.tagName \in {"H1", "H2", "H3", "H4", "H5", "H6"}
getHeadingLevel(element) ==
    CASE element.tagName = "H1" -> {1} [] element.tagName = "H2" -> {2}
      [] element.tagName = "H3" -> {3} [] element.tagName = "H4" -> {4}
      [] element.tagName = "H5" -> {5} [] element.tagName = "H6" -> {6}
      [] OTHER -> {}

\* options.minParagraphLength: the empty set when missing, else {n}
NoLength == {}
Length(n) == {n}
ExtractionOptions(minParagraphLength, scoreParagraphs) ==
    [minParagraphLength |-> minParagraphLength, scoreParagraphs |-> scoreParagraphs]

\* options.minParagraphLength || 20
defaultMinLength == 20
minLengthOf(options) ==
    IF options.minParagraphLength = NoLength \/ options.minParagraphLength = Length(0)
    THEN defaultMinLength
    ELSE CHOOSE n \in options.minParagraphLength : TRUE

\* the mutant drops nothing
tooShortNever(text, minLength) == FALSE

\* if (text.length < minLength) return;
tooShort(text, minLength) == text.len < minLength

\* the paragraph built for the element at position index (from 0); html is
\* the list of the elements whose markup it holds
Paragraph(element, index, options) ==
    [id |-> <<"p", index>>,
     text |-> element.text,
     html |-> <<index>>,
     index |-> index,
     element |-> index,
     bounds |-> element.bounds,
     isQuote |-> isQuote(element),
     isCode |-> isCode(element),
     isHeading |-> isHeading(element),
     headingLevel |-> getHeadingLevel(element),
     importance |-> IF options.scoreParagraphs THEN "scored" ELSE "0.5"]

\* the forEach of detect: the paragraphs of the elements that are long enough
detectParagraphs(elements, options) ==
    LET built == [i \in 1..Len(elements) |-> Paragraph(elements[i], i - 1, options)]
        kept(p) == ~tooShort(p.text, minLengthOf(options))
    IN  SelectSeq(built, kept)

\* /[.!?]$/ and /^[a-z]/ on the trimmed text
endsWithPeriod(text) == text.last \in {".", "!", "?"}
startsWithLower(text) == text.first \in {"a", "z"}

\* the mutant merges across any distance
shouldMergeAnyDistance(p1, p2) ==
    /\ ~(p1.isHeading \/ p2.isHeading)
    /\ ~(p1.isQuote \/ p2.isQuote \/ p1.isCode \/ p2.isCode)
    /\ ~endsWithPeriod(p1.text) /\ startsWithLower(p2.text)

shouldMerge(p1, p2) ==
    IF p1.isHeading \/ p2.isHeading THEN FALSE
    ELSE IF p1.isQuote \/ p2.isQuote \/ p1.isCode \/ p2.isCode THEN FALSE
    ELSE LET distance == p2.bounds.top - (p1.bounds.top + p1.bounds.height) IN
         IF distance > 50 THEN FALSE
         ELSE ~endsWithPeriod(p1.text) /\ startsWithLower(p2.text)

\* the first forEach of postProcess: processed, and current (<< >> is null)
RECURSIVE mergePass(_)
mergePass(paragraphs) ==
    IF paragraphs = << >> THEN [processed |-> << >>, current |-> << >>]
    ELSE LET s == mergePass(SubSeq(paragraphs, 1, Len(paragraphs) - 1))
             p == paragraphs[Len(paragraphs)]
         IN  IF s.current # << >> /\ shouldMerge(s.current[1], p)
             THEN [s EXCEPT !.current =
                      << [s.current[1] EXCEPT
                            !.text = joinText(s.current[1].text, p.text),
                            !.html = s.current[1].html \o p.html,
                            !.bounds = mergeBounds(s.current[1].bounds, p.bounds)] >>]
             ELSE [processed |-> s.processed \o s.current, current |-> <<p>>]

\* the mutant keeps the index and id that detect gave
reindexKept(processed) == processed

\* the second forEach of postProcess
reindex(processed) ==
    [i \in 1..Len(processed) |->
        [processed[i] EXCEPT !.index = i - 1, !.id = <<"p", i - 1>>]]

postProcess(paragraphs) ==
    LET s == mergePass(paragraphs) IN reindex(s.processed \o s.current)

detect(elements, options) == postProcess(detectParagraphs(elements, options))

(***************************************************************************)
(* ContentCleaner                                                           *)
(*                                                                         *)
(* The DOM is a heap of nodes: a node is known by its number, and an        *)
(* element's children are the numbers of its child elements.  A document   *)
(* is the number of its root element.                                      *)
(***************************************************************************)
Node(tag, classes, attrs, text, children) ==
    [tag |-> tag, classes |-> classes, attrs |-> attrs, text |-> text,
     children |-> children]

RECURSIVE subtree(_, _)
\* the element and its descendants
subtree(heap, n) ==
    {n} \cup UNION {subtree(heap, heap[n].children[i]) : i \in 1..Len(heap[n].children)}

RECURSIVE textLength(_, _)
\* element.textContent.trim().length
textLength(heap, n) ==
    LET kids == heap[n].children
        sumTo[i \in 0..Len(kids)] ==
            IF i = 0 THEN 0 ELSE sumTo[i - 1] + textLength(heap, kids[i])
    IN  heap[n].text + sumTo[Len(kids)]

\* the mutant hands out the document itself
cloneNodeAlias(heap, doc) == [heap |-> heap, root |-> doc]

\* doc.cloneNode(true): every node of the document is copied to a new number
cloneNode(heap, doc) ==
    LET size == Cardinality(DOMAIN heap)
        copy(n) == [heap[n] EXCEPT !.children = [i \in 1..Len(@) |-> @[i] + size]]
    IN  [heap |-> [n \in 1..(2 * size) |-> IF n <= size THEN heap[n] ELSE copy(n - size)],
         root |-> doc + size]

\* el.remove() for every el of the set
removeAll(heap, gone) ==
    [n \in DOMAIN heap |->
        [heap[n] EXCEPT !.children = SelectSeq(@, LAMBDA k : k \notin gone)]]

\* selectors: a tag name, .class, [class*="part"] or [attribute]
Tag(name) == [kind |-> "tag", name |-> name]
Class(name) == [kind |-> "class", name |-> name]
ClassPart(name) == [kind |-> "classPart", name |-> name]
Attr(name) == [kind |-> "attr", name |-> name]

\* the class names of the model's documents that contain the fragment
classesWith(part) ==
    CASE part = "share-" -> {"share-buttons"}
      [] part = "banner" -> {"banner"}
      [] part = "popup" -> {"popup"}
      [] part = "sidebar" -> {"sidebar"}
      [] OTHER -> {}

\* element.matches(selector)
matches(node, sel) ==
    CASE sel.kind = "tag" -> node.tag = sel.name
      [] sel.kind = "class" -> sel.name \in node.classes
      [] sel.kind = "classPart" -> node.classes \cap classesWith(sel.name) # {}
      [] OTHER -> sel.name \in node.attrs

\* doc.querySelectorAll over a list of selectors
querySelectorAll(heap, root, sels) ==
    {n \in subtree(heap, root) : \E sel \in sels : matches(heap[n], sel)}

\* removeElements(doc, selectors)
removeElements(heap, root, sels) == removeAll(heap, querySelectorAll(heap, root, sels))

\* removeSelectors, each list cut down to the selectors that tell the
\* elements of the model's documents apart
removeSelectors ==
    [ads |-> {Class("advertisement"), Class("ad"), Class("sponsored")},
     navigation |-> {Tag("nav"), Class("navigation"), Class("menu")},
     comments |-> {Class("comments"), Class("disqus")},
     related |-> {Class("related"), Class("recommended")},
     footers |-> {Tag("footer"), Class("footer")},
     sidebars |-> {Tag("aside"), Class("sidebar"), ClassPart("sidebar")},
     social |-> {Class("social-share"), Class("share-buttons"), ClassPart("share-")},
     popups |-> {Class("popup"), Class("modal"), ClassPart("popup")},
     newsletters |-> {Class("newsletter")},
     cookieBanners |-> {Class("cookie-banner")}]

\* the options after { ...this.defaultOptions, ...options }
CleaningOptions(removals, preserved, aggressiveMode, customRemove, customPreserve) ==
    [removals |-> removals, preserved |-> preserved, aggressiveMode |-> aggressiveMode,
     customRemove |-> customRemove, customPreserve |-> customPreserve]

defaultOptions ==
    CleaningOptions({"ads", "navigation", "comments", "related", "footers", "sidebars",
                     "popups", "cookieBanners", "newsletters"},
                    {"images", "videos"}, FALSE, {}, {})

allowedAttributes ==
    {"href", "src", "alt", "title", "class", "id", "data-src", "data-srcset", "width",
     "height", "datetime", "cite", "lang", "dir"}

\* isJunkClass
isJunkClass(className) == className \in {"js-x", "is-active", "wp-block", "widget-x"}

\* attr.name of an attribute written with its value
attrName(a) ==
    CASE a = "width=0" -> "width"
      [] a = "height=0" -> "height"
      [] a = "style=display:none" -> "style"
      [] OTHER -> a

\* cleanAttributes(doc, options)
cleanAttributes(heap, root, opts) ==
    LET allowed == allowedAttributes \cup opts.customPreserve
        kept(a) == attrName(a) \in allowed \/ a = "aria-label"
    IN  [n \in DOMAIN heap |->
            IF n \in subtree(heap, root)
            THEN [heap[n] EXCEPT !.attrs = {a \in @ : kept(a)},
                                 !.classes = {c \in @ : ~isJunkClass(c)}]
            ELSE heap[n]]

hasDescendant(heap, n, tags) ==
    \E k \in subtree(heap, n) \ {n} : heap[k].tag \in tags

\* one round of the loop of removeEmptyElements
emptyElements(heap, root) ==
    {n \in subtree(heap, root) :
        /\ heap[n].tag \in {"div", "span", "p", "section", "article"}
        /\ textLength(heap, n) = 0
        /\ ~hasDescendant(heap, n, {"img", "video", "iframe"})
        /\ ~hasDescendant(heap, n, {"table", "ul", "ol", "pre", "code"})}

RECURSIVE removeEmptyElements(_, _)
\* while (changed)
removeEmptyElements(heap, root) ==
    IF emptyElements(heap, root) = {} THEN heap
    ELSE removeEmptyElements(removeAll(heap, emptyElements(heap, root)), root)

\* removeHiddenElements: [style*="display:none"] and [hidden], the hidden
\* classes, zero width or height (images are kept)
removeHiddenElements(heap, root) ==
    LET h1 == removeElements(heap, root, {Attr("style=display:none"), Attr("hidden")})
        h2 == removeElements(h1, root, {Class("hidden"), Class("hide"), Class("sr-only")})
        zero == {n \in querySelectorAll(h2, root, {Attr("width=0"), Attr("height=0")}) :
                    h2[n].tag # "img"}
    IN  removeAll(h2, zero)

\* link.closest('p, li')
closest(heap, root, n, tags) ==
    \E k \in subtree(heap, root) : n \in subtree(heap, k) /\ heap[k].tag \in tags

applyAggressiveCleaning(heap, root) ==
    LET divs == {n \in querySelectorAll(heap, root, {Tag("div")}) :
                    /\ textLength(heap, n) < 50
                    /\ ~hasDescendant(heap, n, {"img", "video", "table", "ul", "ol"})}
        h1 == removeAll(heap, divs)
        links == {n \in querySelectorAll(h1, root, {Tag("a")}) :
                    textLength(h1, n) < 20 /\ ~closest(h1, root, n, {"p", "li"})}
        h2 == removeAll(h1, links)
    IN  removeElements(h2, root, {ClassPart("banner"), ClassPart("promo"),
                                  ClassPart("widget")})

\* the removals of clean that the options switch, in the order of the code
RECURSIVE removeSwitched(_, _, _, _)
removeSwitched(heap, root, opts, list) ==
    IF list = << >> THEN heap
    ELSE LET h == IF Head(list) \in opts.removals
                  THEN removeElements(heap, root, removeSelectors[Head(list)])
                  ELSE heap
         IN  removeSwitched(h, root, opts, Tail(list))

\* clean(doc, options): the heap after the call and the document returned
clean(heap, doc, opts) ==
    LET c == cloneNode(heap, doc)
        cleanDoc == c.root
        h1 == removeSwitched(c.heap, cleanDoc, opts,
                  <<"ads", "navigation", "comments", "related", "footers", "sidebars",
                    "popups", "cookieBanners", "newsletters">>)
        h2 == removeElements(h1, cleanDoc, removeSelectors.social)
        h3 == IF opts.customRemove # {}
              THEN removeElements(h2, cleanDoc, opts.customRemove) ELSE h2
        h4 == cleanAttributes(h3, cleanDoc, opts)
        h5 == IF "images" \notin opts.preserved
              THEN removeElements(h4, cleanDoc, {Tag("img"), Tag("picture"), Tag("figure")})
              ELSE h4
        h6 == IF "videos" \notin opts.preserved
              THEN removeElements(h5, cleanDoc, {Tag("video"), Tag("audio")})
              ELSE h5
        h7 == IF "iframes" \notin opts.preserved
              THEN removeElements(h6, cleanDoc, {Tag("iframe"), Tag("embed"), Tag("object")})
              ELSE h6
        h8 == removeEmptyElements(h7, cleanDoc)
        h9 == removeHiddenElements(h8, cleanDoc)
        h10 == IF opts.aggressiveMode THEN applyAggressiveCleaning(h9, cleanDoc) ELSE h9
    IN  [heap |-> h10, cleanDoc |-> cleanDoc]

\* no detect() call has been made
NoDetection == [pc |-> "idle"]

InitCore ==
    /\ now = 0
    /\ registryCall = NoRegistryCall
    /\ requests = [k \in LimiterKeys |-> << >>]
    /\ rlLog = << >>
    /\ cache = << >>
    /\ persistentCache = {}
    /\ cacheHits = 0
    /\ cacheMisses = 0
    /\ pendingExtractions = << >>
    /\ plugins = << >>
    /\ calls = [c \in CallIds |-> IdleCall]
    /\ extraction = [c \in CallIds |-> NoExtraction]
    /\ fetchCount = [u \in Urls |-> 0]
    /\ cacheLog = {}
    /\ microtasks = << >>
    /\ batch = [pc |-> "idle", urls |-> << >>, concurrency |-> 0, chunks |-> << >>,
                i |-> 0, next |-> 1, ids |-> << >>, results |-> << >>]

\* no call of the method has been made
NoCall == [pc |-> "idle"]

\* a result not yet returned, and a returned one
Pending == {}
Done(v) == {v}
IdleRegistry == adapters = builtinAdapters(Priority(10), Priority(10), Priority(10))
IdleDetector == detection = NoDetection
IdleCleaner == cleaning = NoCall
IdleContentCall == contentCall = NoCall
IdleCalls == duplicates = NoCall /\ stream = NoCall /\ stats = NoCall

InitService ==
    /\ InitCore
    /\ IdleRegistry /\ IdleDetector /\ IdleCleaner /\ IdleContentCall /\ IdleCalls

(***************************************************************************)
(* The limiter on its own                                                   *)
(***************************************************************************)
InitRL ==
    /\ InitService
    /\ cacheOptions = [enabled |-> TRUE, persistent |-> FALSE]

RLTick ==
    /\ now < MaxTime
    /\ now' = now + 1
    /\ UNCHANGED <<libVars, rlVars, svcVars, batch>>

RLCheckLimit(k) ==
    /\ Len(rlLog) < MaxRLCalls
    /\ LET r == checkLimit(requests, k, now) IN
        /\ requests' = r.requests
        /\ rlLog' = Append(rlLog, [op |-> "check", key |-> k, time |-> now, ok |-> r.ok,
                                    remaining |-> 0])
    /\ UNCHANGED <<libVars, now, svcVars, batch>>

RLGetRemaining(k) ==
    /\ Len(rlLog) < MaxRLCalls
    /\ requests' = requestsAfterQuery(requests, k, now)
    /\ rlLog' = Append(rlLog, [op |-> "remaining", key |-> k, time |-> now, ok |-> FALSE,
                                remaining |-> getRemainingRequests(requests, k, now)])
    /\ UNCHANGED <<libVars, now, svcVars, batch>>

\* getRateLimitInfo(url): new URL(url) throws on a malformed URL, before the
\* limiter is asked
RLGetRateLimitInfo(url) ==
    /\ Len(rlLog) < MaxRLCalls
    /\ IF ValidUrl(url)
       THEN /\ requests' = requestsAfterQuery(requests, hostname(url), now)
            /\ rlLog' = Append(rlLog,
                    [op |-> "info", key |-> hostname(url), time |-> now, ok |-> FALSE,
                     remaining |-> getRateLimitInfo(requests, url, now).remaining,
                     resetTime |-> getRateLimitInfo(requests, url, now).resetTime])
       ELSE /\ rlLog' = Append(rlLog, [op |-> "infoThrew", key |-> "", time |-> now,
                                        ok |-> FALSE, remaining |-> 0])
            /\ UNCHANGED requests
    /\ UNCHANGED <<libVars, now, svcVars, batch>>

NextRL ==
    \/ RLTick
    \/ \E k \in LimiterKeys : RLCheckLimit(k)
    \/ \E k \in LimiterKeys : RLGetRemaining(k)
    \/ \E url \in Urls : RLGetRateLimitInfo(url)

SpecRL == InitRL /\ [][NextRL]_vars

(***************************************************************************)
(* ContentExtractorService.extract and _extract                            *)
(*                                                                         *)
(* A continuation that an await has scheduled is an entry of microtasks;   *)
(* the queue is served first in, first out, and the clock and the network  *)
(* move only when it is empty.  New extract() calls, plugin registration   *)
(* and the completion of extractEnhanced may come at any moment.           *)
(***************************************************************************)
Job(kind, c) == [k |-> kind, c |-> c]
NextJob(kind, c) == microtasks # << >> /\ Head(microtasks) = Job(kind, c)

Resolve(e, content) == [e EXCEPT !.phase = "resolved", !.content = content]
Reject(e, error) == [e EXCEPT !.phase = "rejected", !.content = NoContent, !.error = error]

\* the continuations of the calls that await the promise, in the order they
\* started to await it
SettleJobs(e) ==
    IF Settled(e) THEN [i \in 1..Len(e.waiters) |-> Job("settle", e.waiters[i])] ELSE << >>

\* the mutant never finds an in-flight entry
IsPendingNever(m, key) == FALSE

\* this.pendingExtractions.has(pendingKey)
IsPending(m, key) == key \in DOMAIN m

pendingSet(m, key, c) == [k \in DOMAIN m \cup {key} |-> IF k = key THEN c ELSE m[k]]

\* the mutant leaves the entry in the map when the extraction has failed
pendingDeleteOnSuccess(m, key, e) ==
    IF e.phase = "rejected" THEN m ELSE [k \in DOMAIN m \ {key} |-> m[k]]

\* finally { this.pendingExtractions.delete(pendingKey) }
pendingDelete(m, key, e) == [k \in DOMAIN m \ {key} |-> m[k]]

\* the mutant composes the group so that a failed call keeps it from resolving
AllSucceeded(cs, ids) ==
    \A i \in DOMAIN ids : cs[ids[i]].pc = "done" /\ cs[ids[i]].result.success

\* the mutant composes the group so that the first resolved call resolves it
AnyResolved(cs, ids) == \E i \in DOMAIN ids : cs[ids[i]].pc = "done"

\* Promise.all over the promises of extract(): each of them has resolved
AllResolved(cs, ids) == \A i \in DOMAIN ids : cs[ids[i]].pc = "done"

\* the calls of the current group of the batch are all resolved
GroupDone(cs) == batch.pc = "waiting" /\ AllResolved(cs, batch.ids)

\* Promise.all resolves when the last call of the group does
BatchJobs(c, cs) ==
    IF c \in Range(batch.ids) /\ GroupDone(cs) THEN <<Job("batch", 0)>> ELSE << >>

\* `await this.extract(url)` in findDuplicates resumes when the call it made
\* has resolved
DuplicatesJobs(c, cs) ==
    IF duplicates.pc = "waiting" /\ duplicates.next = c /\ cs[c].pc = "done"
    THEN <<Job("duplicates", 0)>> ELSE << >>

\* `await this.extract(url, options)` in extractStream resumes when the call
\* it made has resolved
StreamJobs(c, cs) ==
    IF stream.pc = "waiting" /\ stream.id = c /\ cs[c].pc = "done"
    THEN <<Job("stream", 0)>> ELSE << >>

\* the continuations that the resolution of call c schedules
AwaiterJobs(c, cs) == BatchJobs(c, cs) \o DuplicatesJobs(c, cs) \o StreamJobs(c, cs)

\* the call is in flight for a call issued now: nothing has been scheduled
\* since it was issued itself (as for two calls of one synchronous turn), or
\* the extraction it awaits is still running
InFlight(cs, queue, c) ==
    \/ /\ cs[c].pc = "limit"
       /\ queue # << >>
       /\ queue[Len(queue)] = Job("afterLimit", c)
    \/ /\ cs[c].pc \in {"awaitOwn", "awaitShared"}
       /\ Running(extraction[cs[c].waitsFor])

\* the synchronous head of extract(url, options, events), lines 182-184:
\* new URL(url).hostname and the body of checkLimit, up to its await.
\* Gives the call record and the limiter's timestamps after it.
InvokeEffect(cs, reqs, queue, url, options, events, t) ==
    LET same == {d \in CallIds : cs[d].url = url /\ cs[d].options = options}
        call == [IdleCall EXCEPT !.url = url, !.options = options, !.events = events,
                                 !.live = {d \in same : Outstanding(cs[d])},
                                 !.busy = {d \in same : InFlight(cs, queue, d)}]
        r == checkLimit(reqs, hostname(url), t) IN
    IF ~ValidUrl(url)
    THEN {[call |-> done, requests |-> reqs] : done \in Catch(call, Err("InvalidURL", ""))}
    ELSE {[call |-> [call EXCEPT !.pc = "limit", !.admitted = r.ok],
           requests |-> r.requests]}

Invoke(c, url, options, events) ==
    /\ batch.pc = "idle"
    /\ calls[c].pc = "idle"
    /\ \A d \in CallIds : d < c => calls[d].pc # "idle"
    /\ \E out \in InvokeEffect(calls, requests, microtasks, url, options, events, now) :
        /\ calls' = [calls EXCEPT ![c] = out.call]
        /\ requests' = out.requests
        /\ microtasks' = IF out.call.pc = "limit"
                         THEN Append(microtasks, Job("afterLimit", c))
                         ELSE microtasks
    /\ UNCHANGED <<libVars, now, rlLog, cacheOptions, cache, persistentCache, cacheHits,
                   cacheMisses, pendingExtractions, plugins, extraction, fetchCount,
                   cacheLog, batch>>

\* onProgress({phase: 'fetching', progress: 10}) and fetchWithTimeout up to
\* its await (lines 306-307, 553-557): the extraction after it, and whether a
\* fetch was issued
BeginFetch(call, e, t) ==
    {[e |-> [e EXCEPT !.phase = "fetching", !.t0 = t, !.fetched = 1,
                      !.content = [NoContent EXCEPT
                                      !.page = <<call.url, fetchCount[call.url] + 1>>]],
      fetch |-> TRUE]}
    \cup (IF "throw" \in ListenerOutcomes(call)
          THEN {[e |-> Reject(e, Err("Listener", "onProgress")), fetch |-> FALSE]}
          ELSE {})

FetchEffect(out, call) ==
    fetchCount' = IF out.fetch THEN [fetchCount EXCEPT ![call.url] = @ + 1]
                  ELSE fetchCount

\* the continuation of `await checkLimit(domain)`, lines 184-200
AfterLimit(c) ==
    /\ NextJob("afterLimit", c)
    /\ LET call == calls[c]
           rest == Tail(microtasks)
           key == pendingKeyOf(call.url, call.options) IN
       \/ \* the window is exhausted: throw into the catch block
          /\ ~call.admitted
          /\ \E done \in Catch(call, Err("RateLimit", hostname(call.url))) :
               /\ calls' = [calls EXCEPT ![c] = done]
               /\ microtasks' = rest \o AwaiterJobs(c, calls')
          /\ UNCHANGED <<extraction, pendingExtractions, cache, fetchCount, cacheLog>>
       \/ \* events.onStart() throws
          /\ call.admitted /\ "throw" \in ListenerOutcomes(call)
          /\ \E done \in Catch([Hears(call, OnStart) EXCEPT !.threw = TRUE],
                                Err("Listener", "onStart")) :
               /\ calls' = [calls EXCEPT ![c] = done]
               /\ microtasks' = rest
          /\ UNCHANGED <<extraction, pendingExtractions, cache, fetchCount, cacheLog>>
       \/ \* an identical request is in flight: await its promise
          /\ call.admitted /\ IsPending(pendingExtractions, key)
          /\ LET o == pendingExtractions[key] IN
               /\ calls' = [calls EXCEPT ![c] = [Hears(call, OnStart) EXCEPT
                                                     !.pc = "awaitShared", !.waitsFor = o]]
               /\ IF Settled(extraction[o])
                  THEN /\ microtasks' = Append(rest, Job("settle", c))
                       /\ UNCHANGED extraction
                  ELSE /\ microtasks' = rest
                       /\ extraction' = [extraction EXCEPT ![o].waiters = Append(@, c)]
          /\ UNCHANGED <<pendingExtractions, cache, fetchCount, cacheLog>>
       \/ \* a new request: _extract runs up to its first await
          /\ call.admitted /\ ~IsPending(pendingExtractions, key)
          /\ calls' = [calls EXCEPT ![c] = [Hears(call, OnStart) EXCEPT
                                                !.pc = "awaitOwn", !.waitsFor = c]]
          /\ pendingExtractions' = pendingSet(pendingExtractions, key, c)
          /\ IF cacheOptions.enabled
             THEN LET g == getFromCache(cache, persistentCache, cacheOptions,
                                        call.url, call.options, now) IN
                  /\ cache' = g.cache
                  /\ extraction' = [extraction EXCEPT ![c] =
                        [NoExtraction EXCEPT !.phase = "cacheWait", !.hit = g.hit,
                                             !.content = g.content, !.waiters = <<c>>]]
                  /\ cacheLog' = IF g.hit
                                 THEN LogUse(cacheLog, getCacheKey(call.url, call.options))
                                 ELSE cacheLog
                  /\ microtasks' = Append(rest, Job("cacheResume", c))
                  /\ UNCHANGED fetchCount
             ELSE \E out \in BeginFetch(call, [NoExtraction EXCEPT !.waiters = <<c>>], now) :
                  /\ extraction' = [extraction EXCEPT ![c] = out.e]
                  /\ FetchEffect(out, call)
                  /\ microtasks' = rest \o SettleJobs(out.e)
                  /\ UNCHANGED <<cache, cacheLog>>
    /\ UNCHANGED <<libVars, now, requests, rlLog, cacheOptions, persistentCache, cacheHits,
                   cacheMisses, plugins, batch>>

\* the continuation of `await this.getFromCache(url, options)`, lines 294-307
CacheResume(c) ==
    /\ NextJob("cacheResume", c)
    /\ LET call == calls[c]
           e == extraction[c]
           rest == Tail(microtasks) IN
       IF e.hit
       THEN /\ cacheHits' = cacheHits + 1
            /\ \E l \in ListenerOutcomes(call) :
                 LET e2 == IF l = "ok" THEN Resolve(e, e.content)
                           ELSE Reject(e, Err("Listener", "onProgress")) IN
                 /\ extraction' = [extraction EXCEPT ![c] = e2]
                 /\ microtasks' = rest \o SettleJobs(e2)
            /\ UNCHANGED <<cacheMisses, fetchCount>>
       ELSE /\ cacheMisses' = cacheMisses + 1
            /\ \E out \in BeginFetch(call, e, now) :
                 /\ extraction' = [extraction EXCEPT ![c] = out.e]
                 /\ FetchEffect(out, call)
                 /\ microtasks' = rest \o SettleJobs(out.e)
            /\ UNCHANGED cacheHits
    /\ UNCHANGED <<libVars, now, requests, rlLog, cacheOptions, cache, persistentCache,
                   pendingExtractions, plugins, calls, cacheLog, batch>>

\* the mutant rethrows whatever the fetch threw
fetchCatchRethrow(cause) == Err(cause, "")

\* the catch block of fetchWithTimeout (lines 560-566): an AbortError becomes
\* "Request timeout after ...", any other error is rethrown as it is
fetchCatch(cause) == IF cause = "AbortError" THEN Err("Timeout", "") ELSE Err(cause, "")

\* the network answers the fetch before the timer fires (lines 557-559, 308)
FetchOk(c) ==
    /\ microtasks = << >>
    /\ extraction[c].phase = "fetching"
    /\ now - extraction[c].t0 <= FetchTimeout
    /\ extraction' = [extraction EXCEPT ![c].phase = "reading"]
    /\ UNCHANGED <<libVars, now, requests, rlLog, cacheOptions, cache, persistentCache, cacheHits,
                   cacheMisses, pendingExtractions, plugins, calls, fetchCount, cacheLog,
                   microtasks, batch>>

\* the fetch fails (lines 560-565): the failure leaves _extract
FetchError(c) ==
    /\ microtasks = << >>
    /\ extraction[c].phase = "fetching"
    /\ now - extraction[c].t0 <= FetchTimeout
    /\ LET e2 == Reject(extraction[c], fetchCatch("Network")) IN
        /\ extraction' = [extraction EXCEPT ![c] = e2]
        /\ microtasks' = SettleJobs(e2)
    /\ UNCHANGED <<libVars, now, requests, rlLog, cacheOptions, cache, persistentCache, cacheHits,
                   cacheMisses, pendingExtractions, plugins, calls, fetchCount, cacheLog,
                   batch>>

\* the timer of fetchWithTimeout fires: abort, "Request timeout after ..."
FetchAbort(c) ==
    /\ microtasks = << >>
    /\ extraction[c].phase = "fetching"
    /\ now - extraction[c].t0 >= FetchTimeout
    /\ LET e2 == Reject(extraction[c], fetchCatch("AbortError")) IN
        /\ extraction' = [extraction EXCEPT ![c] = e2]
        /\ microtasks' = SettleJobs(e2)
    /\ UNCHANGED <<libVars, now, requests, rlLog, cacheOptions, cache, persistentCache, cacheHits,
                   cacheMisses, pendingExtractions, plugins, calls, fetchCount, cacheLog,
                   batch>>

\* response.text() has delivered the markup: parse, beforeExtract hooks, and
\* the call of extractEnhanced (lines 308-323)
BodyOutcomes(call, e, ps) ==
    LET hooks == RunHooks(ps, "before", << >>) IN
    {IF h.threw THEN Reject(e, Err("Plugin", "beforeExtract"))
     ELSE [e EXCEPT !.phase = "extracting", !.content.pre = h.value, !.seenBefore = ps]
        : h \in hooks}
    \cup (IF "throw" \in ListenerOutcomes(call)
          THEN {Reject(e, Err("Listener", "onProgress"))}
          ELSE {})

BodyOk(c) ==
    /\ microtasks = << >>
    /\ extraction[c].phase = "reading"
    /\ \E e2 \in BodyOutcomes(calls[c], extraction[c], plugins) :
        /\ extraction' = [extraction EXCEPT ![c] = e2]
        /\ microtasks' = SettleJobs(e2)
    /\ UNCHANGED <<libVars, now, requests, rlLog, cacheOptions, cache, persistentCache, cacheHits,
                   cacheMisses, pendingExtractions, plugins, calls, fetchCount, cacheLog,
                   batch>>

\* response.text() fails
BodyError(c) ==
    /\ microtasks = << >>
    /\ extraction[c].phase = "reading"
    /\ LET e2 == Reject(extraction[c], Err("Body", "")) IN
        /\ extraction' = [extraction EXCEPT ![c] = e2]
        /\ microtasks' = SettleJobs(e2)
    /\ UNCHANGED <<libVars, now, requests, rlLog, cacheOptions, cache, persistentCache, cacheHits,
                   cacheMisses, pendingExtractions, plugins, calls, fetchCount, cacheLog,
                   batch>>

\* extractEnhanced has returned: afterExtract hooks, fingerprint, and either
\* saveToCache up to its await or the return of _extract (lines 323-340).
\* Each outcome: the extraction after it and whether the cache was written.
ExtractOutcomes(call, e, ps, enabled) ==
    LET hooks == RunHooks(ps, "after", << >>)
        made(h) == [extractEnhanced(e.content) EXCEPT !.post = h.value]
        final(h) == [made(h) EXCEPT !.fingerprint = generateFingerprint(made(h))] IN
    {IF h.threw THEN [e |-> Reject(e, Err("Plugin", "afterExtract")), save |-> FALSE]
     ELSE IF enabled
          THEN [e |-> [e EXCEPT !.phase = "saving", !.content = final(h), !.seenAfter = ps],
                save |-> TRUE]
          ELSE [e |-> [Resolve(e, final(h)) EXCEPT !.seenAfter = ps], save |-> FALSE]
        : h \in hooks}
    \cup (IF "throw" \in ListenerOutcomes(call)
          THEN {[e |-> Reject(e, Err("Listener", "onProgress")), save |-> FALSE]}
          ELSE {})

ExtractDone(c) ==
    /\ microtasks = << >>
    /\ extraction[c].phase = "extracting"
    /\ LET call == calls[c] IN
       \E out \in ExtractOutcomes(call, extraction[c], plugins, cacheOptions.enabled) :
         /\ extraction' = [extraction EXCEPT ![c] = out.e]
         /\ IF out.save
            THEN LET sv == saveToCache(cache, persistentCache, cacheOptions, call.url,
                                       call.options, out.e.content, now) IN
                 /\ cache' = sv.cache
                 /\ persistentCache' = sv.persistentCache
                 /\ cacheLog' = LogSet(cacheLog, getCacheKey(call.url, call.options), now)
                 /\ microtasks' = Append(microtasks, Job("saveResume", c))
            ELSE /\ UNCHANGED <<cache, persistentCache, cacheLog>>
                 /\ microtasks' = microtasks \o SettleJobs(out.e)
    /\ UNCHANGED <<libVars, now, requests, rlLog, cacheOptions, cacheHits, cacheMisses,
                   pendingExtractions, plugins, calls, fetchCount, batch>>

\* extractEnhanced fails on the document
ExtractError(c) ==
    /\ microtasks = << >>
    /\ extraction[c].phase = "extracting"
    /\ LET e2 == Reject(extraction[c], Err("Parse", "")) IN
        /\ extraction' = [extraction EXCEPT ![c] = e2]
        /\ microtasks' = microtasks \o SettleJobs(e2)
    /\ UNCHANGED <<libVars, now, requests, rlLog, cacheOptions, cache, persistentCache, cacheHits,
                   cacheMisses, pendingExtractions, plugins, calls, fetchCount, cacheLog,
                   batch>>

\* the continuation of `await this.saveToCache(...)`, lines 339-340
SaveResume(c) ==
    /\ NextJob("saveResume", c)
    /\ \E l \in ListenerOutcomes(calls[c]) :
        LET e == extraction[c]
            e2 == IF l = "ok" THEN Resolve(e, e.content)
                  ELSE Reject(e, Err("Listener", "onProgress")) IN
        /\ extraction' = [extraction EXCEPT ![c] = e2]
        /\ microtasks' = Tail(microtasks) \o SettleJobs(e2)
    /\ UNCHANGED <<libVars, now, requests, rlLog, cacheOptions, cache, persistentCache, cacheHits,
                   cacheMisses, pendingExtractions, plugins, calls, fetchCount, cacheLog,
                   batch>>

\* the mutant returns a success whatever the promise settled to
SettleOutcomesSwallow(call, e) ==
    {[call EXCEPT !.pc = "done", !.result = Success(e.content)]}

\* what a call that awaited the promise e does when it settles: the owner
\* (lines 200-205, then 206-213 on a failure) or a joined call (192-193)
SettleOutcomes(call, e) ==
    IF e.phase = "rejected" THEN Catch(call, e.error)
    ELSE IF call.pc = "awaitOwn" /\ "throw" \in ListenerOutcomes(call)
         THEN {[Hears(call, OnComplete(e.content)) EXCEPT
                   !.pc = "done", !.result = Success(e.content)]}
              \cup Catch([Hears(call, OnComplete(e.content)) EXCEPT !.threw = TRUE],
                         Err("Listener", "onComplete"))
         ELSE {[call EXCEPT !.pc = "done", !.result = Success(e.content)]}

Settle(c) ==
    /\ NextJob("settle", c)
    /\ LET call == calls[c]
           e == extraction[call.waitsFor]
           key == pendingKeyOf(call.url, call.options) IN
        /\ \E done \in SettleOutcomes(call, e) :
             /\ calls' = [calls EXCEPT ![c] = done]
             /\ microtasks' = Tail(microtasks) \o AwaiterJobs(c, calls')
        /\ pendingExtractions' = IF call.pc = "awaitOwn"
                                 THEN pendingDelete(pendingExtractions, key, e)
                                 ELSE pendingExtractions
    /\ UNCHANGED <<libVars, now, requests, rlLog, cacheOptions, cache, persistentCache, cacheHits,
                   cacheMisses, plugins, extraction, fetchCount, cacheLog, batch>>

\* registerPlugin: after plugin.init(), this.plugins.push(plugin)
RegisterPlugin(p) ==
    /\ Len(plugins) < MaxPlugins
    /\ plugins' = Append(plugins, p)
    /\ UNCHANGED <<libVars, now, requests, rlLog, cacheOptions, cache, persistentCache, cacheHits,
                   cacheMisses, pendingExtractions, calls, extraction, fetchCount,
                   cacheLog, microtasks, batch>>

\* unregisterPlugin: this.plugins.filter((p) => p.name !== pluginName)
UnregisterPlugin(p) ==
    /\ p \in Range(plugins)
    /\ plugins' = SelectSeq(plugins, LAMBDA q : q # p)
    /\ UNCHANGED <<libVars, now, requests, rlLog, cacheOptions, cache, persistentCache, cacheHits,
                   cacheMisses, pendingExtractions, calls, extraction, fetchCount,
                   cacheLog, microtasks, batch>>

(***************************************************************************)
(* extractFromDocument and extractFromHTML, lines 232-285                  *)
(***************************************************************************)
\* the mutant has the direct entry points ask the limiter as extract() does
directEntryLimited(reqs, url, t) == checkLimit(reqs, hostname(url), t)

\* the entry of extractFromDocument / extractFromHTML (lines 238-240 and
\* 276-282): no new URL(url), no checkLimit, no in-flight map, no cache
directEntry(reqs, url, t) == [ok |-> TRUE, requests |-> reqs]

\* a page is <<url, n>>: the n-th fetch of the URL, or for n = 0 the document
\* the caller handed in, or for n = -1 the document parsed from the caller's
\* markup
GivenDocument(url) == <<url, 0>>
ParsedDocument(url) == <<url, -1>>

\* a direct call that ended in its catch block: onError, the tagged failure
DirectCatch(call, error, ps) ==
    {[call |-> done,
      e |-> [NoExtraction EXCEPT !.phase = "directFailed", !.seenBefore = ps,
                                 !.error = error]]
        : done \in Catch(call, error)}

\* the head of extractFromHTML (lines 274-284): onStart, onProgress and the
\* parse; the calls that go on into extractFromDocument, and those that ended
HTMLHead(call, doc) ==
    IF doc[2] # -1 THEN [on |-> {call}, ended |-> {}]
    ELSE [on |-> {Hears(call, OnStart)},
          ended |-> IF "throw" \in ListenerOutcomes(call)
                    THEN DirectCatch([Hears(call, OnStart) EXCEPT !.threw = TRUE],
                                     Err("Listener", "onStart"), << >>)
                         \cup DirectCatch([Hears(call, OnStart) EXCEPT !.threw = TRUE],
                                          Err("Listener", "onProgress"), << >>)
                    ELSE {}]

\* extractFromDocument up to `await extractEnhanced` (lines 238-250):
\* onStart, onProgress and the beforeExtract hooks over the given document
DirectStartOutcomes(call, doc, ps) ==
    LET head == HTMLHead(call, doc)
        started(cl) == Hears(cl, OnStart) IN
    head.ended
    \cup UNION {
        (IF "throw" \in ListenerOutcomes(cl)
         THEN DirectCatch([started(cl) EXCEPT !.threw = TRUE],
                          Err("Listener", "onStart"), << >>)
              \cup DirectCatch([started(cl) EXCEPT !.threw = TRUE],
                               Err("Listener", "onProgress"), << >>)
         ELSE {})
        \cup UNION {
            IF h.threw
            THEN DirectCatch(started(cl), Err("Plugin", "beforeExtract"), ps)
            ELSE {[call |-> [started(cl) EXCEPT !.pc = "direct"],
                   e |-> [NoExtraction EXCEPT !.phase = "direct", !.seenBefore = ps,
                                              !.content = [NoContent EXCEPT
                                                              !.page = doc,
                                                              !.pre = h.value]]]}
            : h \in RunHooks(ps, "before", << >>)}
        : cl \in head.on}

DirectStart(c, url, doc, events) ==
    /\ batch.pc = "idle"
    /\ calls[c].pc = "idle"
    /\ \A d \in CallIds : d < c => calls[d].pc # "idle"
    /\ LET entry == directEntry(requests, url, now) IN
        /\ entry.ok
        /\ requests' = entry.requests
        /\ \E out \in DirectStartOutcomes(
                        [IdleCall EXCEPT !.url = url, !.events = events,
                                         !.entry = IF doc = ParsedDocument(url)
                                                   THEN "extractFromHTML"
                                                   ELSE "extractFromDocument"],
                        doc, plugins) :
             /\ calls' = [calls EXCEPT ![c] = out.call]
             /\ extraction' = [extraction EXCEPT ![c] = out.e]
    /\ UNCHANGED <<libVars, now, rlLog, cacheOptions, cache, persistentCache, cacheHits,
                   cacheMisses, pendingExtractions, plugins, fetchCount, cacheLog,
                   microtasks, batch>>

\* extractFromDocument(document, url, options, events)
ExtractFromDocument(c, url, events) == DirectStart(c, url, GivenDocument(url), events)

\* extractFromHTML(html, url, options): new JSDOM(html), then
\* extractFromDocument on its document (lines 276-282)
ExtractFromHTML(c, url, events) == DirectStart(c, url, ParsedDocument(url), events)

\* extractEnhanced has returned to extractFromDocument (lines 250-261): the
\* afterExtract hooks, the fingerprint, the result
DirectDoneOutcomes(call, e, ps) ==
    LET made(h) == [extractEnhanced(e.content) EXCEPT !.post = h.value]
        final(h) == [made(h) EXCEPT !.fingerprint = generateFingerprint(made(h))] IN
    UNION {
        IF h.threw
        THEN {[call |-> done,
               e |-> [e EXCEPT !.phase = "directFailed", !.seenAfter = ps,
                               !.content = NoContent,
                               !.error = Err("Plugin", "afterExtract")]]
                 : done \in Catch(call, Err("Plugin", "afterExtract"))}
        ELSE {[call |-> [Hears(call, OnComplete(final(h))) EXCEPT
                            !.pc = "done", !.result = Success(final(h))],
               e |-> [e EXCEPT !.phase = "directDone", !.seenAfter = ps,
                               !.content = final(h)]]}
             \cup (IF "throw" \in ListenerOutcomes(call)
                   THEN {[call |-> done,
                          e |-> [e EXCEPT !.phase = "directFailed", !.seenAfter = ps,
                                          !.content = NoContent,
                                          !.error = Err("Listener", "onComplete")]]
                            : done \in Catch([Hears(call, OnComplete(final(h))) EXCEPT
                                                 !.threw = TRUE],
                                             Err("Listener", "onComplete"))}
                   ELSE {})
        : h \in RunHooks(ps, "after", << >>)}
    \cup {[call |-> done,
           e |-> [e EXCEPT !.phase = "directFailed", !.content = NoContent,
                           !.error = Err("Parse", "")]]
             : done \in Catch(call, Err("Parse", ""))}

DirectDone(c) ==
    /\ microtasks = << >>
    /\ calls[c].pc = "direct"
    /\ \E out \in DirectDoneOutcomes(calls[c], extraction[c], plugins) :
         /\ calls' = [calls EXCEPT ![c] = out.call]
         /\ extraction' = [extraction EXCEPT ![c] = out.e]
    /\ UNCHANGED <<libVars, now, requests, rlLog, cacheOptions, cache, persistentCache, cacheHits,
                   cacheMisses, pendingExtractions, plugins, fetchCount, cacheLog,
                   microtasks, batch>>

\* the clock advances while the event loop waits
Tick ==
    /\ microtasks = << >>
    /\ now < MaxTime
    /\ now' = now + 1
    /\ UNCHANGED <<libVars, rlVars, svcVars, batch>>

(***************************************************************************)
(* extractBatch(urls, options, concurrency), lines 343-363                 *)
(***************************************************************************)
RECURSIVE ChunksFrom(_, _, _, _)
\* for (let i = 0; i < urls.length; i += concurrency)
\*     chunks.push(urls.slice(i, i + concurrency)), i counted from 1 here
ChunksFrom(urls, concurrency, i, width) ==
    IF i > Len(urls) THEN << >>
    ELSE LET last == IF i + width - 1 > Len(urls) THEN Len(urls) ELSE i + width - 1 IN
         <<SubSeq(urls, i, last)>> \o ChunksFrom(urls, concurrency, i + concurrency, width)

\* the mutant slices one URL short: urls.slice(i, i + concurrency - 1)
chunksOfShort(urls, concurrency) ==
    ChunksFrom(urls, concurrency, 1, IF concurrency > 1 THEN concurrency - 1 ELSE 1)

chunksOf(urls, concurrency) == ChunksFrom(urls, concurrency, 1, concurrency)

\* chunk.map((url) => this.extract(url, options)): the synchronous heads of
\* the calls of one group, in order; the call for urls[i] is call number i
RECURSIVE InvokeGroup(_, _, _)
InvokeGroup(st, group, i) ==
    IF i > Len(group) THEN st
    ELSE LET c == st.first + i - 1
             out == CHOOSE o \in InvokeEffect(st.calls, st.requests, st.queue, group[i],
                                               Undefined, FALSE, now) : TRUE IN
         InvokeGroup([st EXCEPT !.calls = [st.calls EXCEPT ![c] = out.call],
                                !.requests = out.requests,
                                !.queue = IF out.call.pc = "limit"
                                          THEN Append(st.queue, Job("afterLimit", c))
                                          ELSE st.queue],
                     group, i + 1)

\* the results of a group, in the order of its URLs (Promise.all)
GroupResults(ids, cs) == [i \in 1..Len(ids) |-> cs[ids[i]].result]

\* starts group g of the batch b, whose first URL is URL number first
StartGroup(b, g, first, queue) ==
    LET group == b.chunks[g]
        st == InvokeGroup([calls |-> calls, requests |-> requests, queue |-> queue,
                           first |-> first], group, 1)
        ids == [i \in 1..Len(group) |-> first + i - 1] IN
    /\ calls' = st.calls
    /\ requests' = st.requests
    /\ batch' = [b EXCEPT !.pc = "waiting", !.next = g, !.ids = ids]
    /\ microtasks' = st.queue \o
                     (IF AllResolved(st.calls, ids)
                      THEN <<Job("batch", 0)>> ELSE << >>)

BatchStart(urls, concurrency) ==
    /\ batch.pc = "idle"
    /\ \A c \in CallIds : calls[c].pc = "idle"
    /\ LET b == [batch EXCEPT !.urls = urls, !.concurrency = concurrency,
                              !.chunks = chunksOf(urls, concurrency)] IN
       IF b.chunks = << >>
       THEN /\ batch' = [b EXCEPT !.pc = "done"]
            /\ UNCHANGED <<calls, requests, microtasks>>
       ELSE StartGroup(b, 1, 1, microtasks)
    /\ UNCHANGED <<libVars, now, rlLog, cacheOptions, cache, persistentCache, cacheHits,
                   cacheMisses, pendingExtractions, plugins, extraction, fetchCount,
                   cacheLog>>

\* extractBatch step by step, for every integer concurrency: the call up to
\* the first test of the chunking loop
BatchChunking(urls, concurrency) ==
    /\ batch.pc = "idle"
    /\ \A c \in CallIds : calls[c].pc = "idle"
    /\ batch' = [batch EXCEPT !.pc = "chunking", !.urls = urls,
                              !.concurrency = concurrency, !.chunks = << >>, !.i = 0]
    /\ UNCHANGED <<libVars, now, rlVars, svcVars>>

\* one test of `i < urls.length` (line 351): another chunk is pushed and i
\* moves by concurrency, or the loop is left and the first group starts; a
\* push that finds the heap full ends the process, or throws a RangeError
\* that rejects the promise of the call
BatchChunkStep ==
    /\ batch.pc = "chunking"
    /\ IF batch.i < Len(batch.urls)
       THEN /\ IF Len(batch.chunks) < HeapChunks
               THEN batch' = [batch EXCEPT
                                 !.chunks = Append(@, sliceArray(batch.urls, batch.i,
                                                                 batch.i + batch.concurrency)),
                                 !.i = @ + batch.concurrency]
               ELSE batch' \in {[batch EXCEPT !.pc = "aborted"],
                                [batch EXCEPT !.pc = "rejected"]}
            /\ UNCHANGED <<calls, requests, microtasks>>
       ELSE IF batch.chunks = << >>
            THEN /\ batch' = [batch EXCEPT !.pc = "done"]
                 /\ UNCHANGED <<calls, requests, microtasks>>
            ELSE StartGroup(batch, 1, 1, microtasks)
    /\ UNCHANGED <<libVars, now, rlLog, cacheOptions, cache, persistentCache, cacheHits,
                   cacheMisses, pendingExtractions, plugins, extraction, fetchCount,
                   cacheLog>>

\* the continuation of `await Promise.all(...)`: results.push(...chunkResults),
\* then the next group or the return
BatchResume ==
    /\ NextJob("batch", 0)
    /\ LET b == [batch EXCEPT !.results = @ \o GroupResults(batch.ids, calls)]
           first == batch.ids[Len(batch.ids)] + 1 IN
       IF batch.next < Len(batch.chunks)
       THEN StartGroup(b, batch.next + 1, first, Tail(microtasks))
       ELSE /\ batch' = [b EXCEPT !.pc = "done", !.ids = << >>]
            /\ microtasks' = Tail(microtasks)
            /\ UNCHANGED <<calls, requests>>
    /\ UNCHANGED <<libVars, now, rlLog, cacheOptions, cache, persistentCache, cacheHits,
                   cacheMisses, pendingExtractions, plugins, extraction, fetchCount,
                   cacheLog>>

(***************************************************************************)
(* findDuplicates(urls), lines 604-626                                      *)
(***************************************************************************)
\* fingerprints.get(fp).push(url), after fingerprints.set(fp, []) for a new
\* fingerprint; the map keeps its entries in the order they were set
fingerprintsPush(fingerprints, fp, url) ==
    IF \E i \in DOMAIN fingerprints : fingerprints[i].fp = fp
    THEN [i \in DOMAIN fingerprints |->
             IF fingerprints[i].fp = fp
             THEN [fingerprints[i] EXCEPT !.urls = Append(@, url)]
             ELSE fingerprints[i]]
    ELSE Append(fingerprints, [fp |-> fp, urls |-> <<url>>])

\* the mutant returns every group
duplicateGroupsAll(fingerprints) == fingerprints

\* the second loop: the entries with urls.length > 1
duplicateGroups(fingerprints) == SelectSeq(fingerprints, LAMBDA g : Len(g.urls) > 1)

\* this.extract(url) for URL number i, which is call number i
DuplicatesExtract(d, i, queue) ==
    LET st == InvokeGroup([calls |-> calls, requests |-> requests, queue |-> queue,
                           first |-> i], <<d.urls[i]>>, 1) IN
    /\ calls' = st.calls
    /\ requests' = st.requests
    /\ duplicates' = [d EXCEPT !.pc = "waiting", !.next = i]
    /\ microtasks' = st.queue \o
                     (IF st.calls[i].pc = "done" THEN <<Job("duplicates", 0)>> ELSE << >>)

FindDuplicates(urls) ==
    /\ duplicates.pc = "idle"
    /\ batch.pc = "idle"
    /\ \A c \in CallIds : calls[c].pc = "idle"
    /\ LET d == [pc |-> "idle", urls |-> urls, next |-> 0, fingerprints |-> << >>,
                 result |-> << >>] IN
       IF urls = << >>
       THEN /\ duplicates' = [d EXCEPT !.pc = "done"]
            /\ UNCHANGED <<calls, requests, microtasks>>
       ELSE DuplicatesExtract(d, 1, microtasks)
    /\ UNCHANGED <<now, rlLog, cacheOptions, cache, persistentCache, cacheHits, cacheMisses,
                   pendingExtractions, plugins, extraction, fetchCount, cacheLog, batch,
                   adapters, registryCall, detection, cleaning, contentCall, stream, stats>>

\* the continuation of `await this.extract(url)`: the body of the loop, then
\* the next URL or the second loop and the return
FindDuplicatesResume ==
    /\ NextJob("duplicates", 0)
    /\ LET i == duplicates.next
           result == calls[i].result
           d == IF result.success
                THEN [duplicates EXCEPT
                         !.fingerprints = fingerprintsPush(@, result.data.fingerprint,
                                                           duplicates.urls[i])]
                ELSE duplicates IN
       IF i < Len(duplicates.urls)
       THEN DuplicatesExtract(d, i + 1, Tail(microtasks))
       ELSE /\ duplicates' = [d EXCEPT !.pc = "done",
                                       !.result = duplicateGroups(d.fingerprints)]
            /\ microtasks' = Tail(microtasks)
            /\ UNCHANGED <<calls, requests>>
    /\ UNCHANGED <<now, rlLog, cacheOptions, cache, persistentCache, cacheHits, cacheMisses,
                   pendingExtractions, plugins, extraction, fetchCount, cacheLog, batch,
                   adapters, registryCall, detection, cleaning, contentCall, stream, stats>>

(***************************************************************************)
(* extractStream(url, options), lines 365-395                               *)
(***************************************************************************)
\* the options object; chunkSize is the empty set when missing, else {n}
StreamingOptions(chunkSize) ==
    IF chunkSize = NoLength THEN EmptyObject ELSE <<"object", "chunkSize", chunkSize>>

\* options.chunkSize || 10
defaultChunkSize == 10
chunkSizeOf(chunkSize) ==
    IF chunkSize = NoLength \/ chunkSize = Length(0) THEN defaultChunkSize
    ELSE CHOOSE n \in chunkSize : TRUE

\* p.text.split(/\s+/).length for the trimmed text of a paragraph: its words
splitLength(p) == IF p.words = 0 THEN 1 ELSE p.words

\* array.reduce((sum, p) => sum + f(p), 0)
reduceSum(array) ==
    LET sum[k \in 0..Len(array)] ==
            IF k = 0 THEN 0 ELSE sum[k - 1] + splitLength(array[k])
    IN  sum[Len(array)]

\* the mutant counts the words of the paragraphs up to the end of the chunk
chunkAtCumulative(paragraphs, i, chunkSize) ==
    [paragraphs |-> sliceArray(paragraphs, i, i + chunkSize),
     wordCount |-> reduceSum(sliceArray(paragraphs, 0, i + chunkSize))]

\* the chunk built in the loop body
chunkAt(paragraphs, i, chunkSize) ==
    [paragraphs |-> sliceArray(paragraphs, i, i + chunkSize),
     wordCount |-> reduceSum(sliceArray(paragraphs, i, i + chunkSize))]

\* the generator from the test of the loop to its next yield, its return or
\* a throw of options.onProgress
streamLoop(st, content) ==
    IF st.i < Len(content.paragraphs)
    THEN LET chunk == chunkAt(content.paragraphs, st.i, st.chunkSize) IN
         {[st EXCEPT !.pc = "yielded", !.chunks = Append(@, chunk),
                     !.i = @ + st.chunkSize]}
         \cup (IF st.onProgress THEN {[st EXCEPT !.pc = "threw"]} ELSE {})
    ELSE {[st EXCEPT !.pc = "returned", !.returned = content]}

StreamFrame ==
    UNCHANGED <<now, rlLog, cacheOptions, cache, persistentCache, cacheHits, cacheMisses,
                pendingExtractions, plugins, extraction, fetchCount, cacheLog, batch,
                adapters, registryCall, detection, cleaning, contentCall, duplicates, stats>>

\* the first next() of the generator: up to `await this.extract(url, options)`
ExtractStream(url, chunkSize, onProgress) ==
    /\ stream.pc = "idle"
    /\ batch.pc = "idle"
    /\ \A c \in CallIds : calls[c].pc = "idle"
    /\ \E out \in InvokeEffect(calls, requests, microtasks, url, StreamingOptions(chunkSize),
                                FALSE, now) :
        /\ calls' = [calls EXCEPT ![1] = out.call]
        /\ requests' = out.requests
        /\ stream' = [pc |-> "waiting", id |-> 1, options |-> chunkSize,
                      chunkSize |-> chunkSizeOf(chunkSize), onProgress |-> onProgress,
                      i |-> 0, chunks |-> << >>, returned |-> NoContent, error |-> NoError]
        /\ microtasks' = IF out.call.pc = "limit"
                         THEN Append(microtasks, Job("afterLimit", 1))
                         ELSE Append(microtasks, Job("stream", 0))
    /\ StreamFrame

\* the continuation of the await: throw result.error, or the loop up to the
\* first yield
ExtractStreamResume ==
    /\ NextJob("stream", 0)
    /\ LET result == calls[stream.id].result IN
       IF ~result.success
       THEN stream' = [stream EXCEPT !.pc = "threw", !.error = result.error]
       ELSE stream' \in streamLoop(stream, result.data)
    /\ microtasks' = Tail(microtasks)
    /\ UNCHANGED <<calls, requests>>
    /\ StreamFrame

\* a later next(): the generator goes on after its yield
ExtractStreamNext ==
    /\ stream.pc = "yielded"
    /\ stream' \in streamLoop(stream, calls[stream.id].result.data)
    /\ UNCHANGED <<calls, requests, microtasks>>
    /\ StreamFrame

(***************************************************************************)
(* clearCache and getCacheStats, lines 569-594                              *)
(***************************************************************************)
\* the calls made so far, and those made before the last clearCache
Invoked == Cardinality({c \in CallIds : calls[c].pc # "idle"})
Since == IF stats.pc = "idle" THEN 0 ELSE stats.since

\* a quotient of two numbers, kept as the pair
Ratio(num, den) == [num |-> num, den |-> den]

\* the mutant divides the hits by the misses
getCacheStatsHitsPerMiss(c, hits, misses) ==
    LET total == hits + misses IN
    [size |-> Len(c),
     hitRate |-> IF total > 0 THEN Ratio(hits, misses) ELSE Ratio(0, 1),
     hits |-> hits, misses |-> misses, itemCount |-> Len(c)]

getCacheStats(c, hits, misses) ==
    LET total == hits + misses IN
    [size |-> Len(c),
     hitRate |-> IF total > 0 THEN Ratio(hits, total) ELSE Ratio(0, 1),
     hits |-> hits, misses |-> misses, itemCount |-> Len(c)]

ClearCache ==
    /\ cache' = << >>
    /\ cacheHits' = 0
    /\ cacheMisses' = 0
    /\ persistentCache' = {}
    /\ stats' = [pc |-> "cleared", since |-> Invoked, at |-> Invoked, last |-> Pending]
    /\ UNCHANGED <<now, rlVars, cacheOptions, pendingExtractions, plugins, calls, extraction,
                   fetchCount, cacheLog, microtasks, batch, adapters, registryCall, detection,
                   cleaning, contentCall, duplicates, stream>>

GetCacheStats ==
    /\ stats' = [pc |-> "read", since |-> Since, at |-> Invoked,
                 last |-> Done(getCacheStats(cache, cacheHits, cacheMisses))]
    /\ UNCHANGED <<now, rlVars, svcVars, batch, adapters, registryCall, detection, cleaning,
                   contentCall, duplicates, stream>>

(***************************************************************************)
(* Specifications                                                          *)
(***************************************************************************)
Progress ==
    \/ \E c \in CallIds : AfterLimit(c)
    \/ \E c \in CallIds : CacheResume(c)
    \/ \E c \in CallIds : FetchOk(c)
    \/ \E c \in CallIds : FetchError(c)
    \/ \E c \in CallIds : FetchAbort(c)
    \/ \E c \in CallIds : BodyOk(c)
    \/ \E c \in CallIds : BodyError(c)
    \/ \E c \in CallIds : ExtractDone(c)
    \/ \E c \in CallIds : ExtractError(c)
    \/ \E c \in CallIds : SaveResume(c)
    \/ \E c \in CallIds : Settle(c)
    \/ Tick

A1 == <<"a", "1">>
A2 == <<"a", "2">>
CacheOn == [enabled |-> TRUE, persistent |-> FALSE]
CacheOff == [enabled |-> FALSE, persistent |-> FALSE]

\* Spec: extract() calls on two URLs of one origin, one of them with the
\* options omitted or given as {}, overlapping at will, with the cache enabled
\* or disabled; no listeners
Requests == {<<A1, Undefined>>, <<A1, EmptyObject>>, <<A2, Undefined>>}

Init ==
    /\ InitService
    /\ cacheOptions \in {CacheOn, CacheOff}

Next ==
    \/ \E c \in CallIds, r \in Requests : Invoke(c, r[1], r[2], FALSE)
    \/ Progress

Spec == Init /\ [][Next]_vars

\* SpecEvents: calls with listeners (each listener invocation may throw), on a
\* well-formed and a malformed URL
InitEvents ==
    /\ InitService
    /\ cacheOptions = CacheOn

NextEvents ==
    \/ \E c \in CallIds, u \in {A1, BadUrl} : Invoke(c, u, Undefined, TRUE)
    \/ Progress

SpecEvents == InitEvents /\ [][NextEvents]_vars

\* SpecPlugins: plugins are registered and unregistered while calls run
NextPlugins ==
    \/ \E c \in 1..PluginCalls : Invoke(c, A1, Undefined, FALSE)
    \/ \E p \in PluginNames : RegisterPlugin(p)
    \/ \E p \in PluginNames : UnregisterPlugin(p)
    \/ Progress

SpecPlugins == InitEvents /\ [][NextPlugins]_vars

\* SpecBatch: one extractBatch call on a fresh service
BatchUrls == {A1, A2, BadUrl}
UrlLists == UNION {[1..n -> BatchUrls] : n \in 0..MaxCalls}

NextBatch ==
    \/ \E urls \in UrlLists, k \in 1..MaxCalls : BatchStart(urls, k)
    \/ BatchResume
    \/ Progress

SpecBatch == Init /\ [][NextBatch]_vars

\* SpecChunking: one extractBatch call with any concurrency, its loop taken
\* step by step; the event loop runs every continuation that is ready and
\* every request is answered
Concurrencies == {-1, 0, 1, 2}

NextChunking ==
    \/ \E urls \in UrlLists, k \in Concurrencies : BatchChunking(urls, k)
    \/ BatchChunkStep
    \/ BatchResume
    \/ Progress

SpecChunking ==
    /\ Init
    /\ [][NextChunking]_vars
    /\ WF_vars(BatchChunkStep) /\ WF_vars(BatchResume) /\ WF_vars(Progress)

\* SpecDuplicates: one findDuplicates call on a fresh service; B1 is a
\* mirror of A1 on another origin
B1 == <<"b", "1">>
DuplicateUrls == {A1, A2, B1, BadUrl}
DuplicateLists == UNION {[1..n -> DuplicateUrls] : n \in 0..MaxCalls}

NextDuplicates ==
    \/ \E urls \in DuplicateLists : FindDuplicates(urls)
    \/ FindDuplicatesResume
    \/ Progress

SpecDuplicates == Init /\ [][NextDuplicates]_vars

\* SpecStream: one extractStream call on a fresh service, drained by its
\* consumer
ChunkSizes == {NoLength, Length(0), Length(1), Length(2), Length(3)}

NextStream ==
    \/ \E u \in {A1, A2, BadUrl}, k \in ChunkSizes, f \in BOOLEAN : ExtractStream(u, k, f)
    \/ ExtractStreamResume
    \/ ExtractStreamNext
    \/ Progress

SpecStream == Init /\ [][NextStream]_vars

\* SpecStats: extract() calls one after the other, with or without listeners,
\* each made when the call before has returned; the cache is enabled, and
\* cleared and asked for its statistics between the calls
StatsCalls == 2

Quiet ==
    /\ microtasks = << >>
    /\ \A c \in CallIds : ~Outstanding(calls[c]) /\ ~Running(extraction[c])

NextStats ==
    \/ /\ Quiet
       /\ \E c \in 1..StatsCalls, u \in {A1, A2}, ev \in BOOLEAN :
              Invoke(c, u, Undefined, ev)
    \/ Quiet /\ ClearCache
    \/ Quiet /\ GetCacheStats
    \/ Progress

SpecStats == InitEvents /\ [][NextStats]_vars

\* SpecAbort: identical extract() calls, overlapping at will, while a plugin
\* whose hooks may throw is registered; the cache is enabled, no listeners
NextAbort ==
    \/ \E c \in CallIds : Invoke(c, A1, Undefined, FALSE)
    \/ RegisterPlugin("x")
    \/ Progress

SpecAbort == InitEvents /\ [][NextAbort]_vars

\* SpecPersistent: extract() calls on two URLs of different origins,
\* overlapping at will, on a service constructed with { persistent: true }
CachePersistent == [enabled |-> TRUE, persistent |-> TRUE]

InitPersistent ==
    /\ InitService
    /\ cacheOptions = CachePersistent

NextPersistent ==
    \/ \E c \in CallIds, u \in {A1, B1} : Invoke(c, u, Undefined, FALSE)
    \/ Progress

SpecPersistent == InitPersistent /\ [][NextPersistent]_vars

\* SpecTimeout: two identical extract() calls, overlapping at will, issued
\* early enough for the timer of their fetch to fire within the run.  The
\* event loop runs every job that is ready, the clock advances, the timer of
\* fetchWithTimeout fires when it is due and extractEnhanced returns or
\* throws; nothing is assumed about the server: it may never answer the fetch
\* and never finish the body.
TimeoutCalls == 2

NextTimeout ==
    \/ /\ now + FetchTimeout <= MaxTime
       /\ \E c \in 1..TimeoutCalls : Invoke(c, A1, Undefined, FALSE)
    \/ Progress

EventLoopFairness ==
    /\ \A c \in 1..TimeoutCalls :
          /\ WF_vars(AfterLimit(c))
          /\ WF_vars(CacheResume(c))
          /\ WF_vars(SaveResume(c))
          /\ WF_vars(Settle(c))
          /\ WF_vars(FetchAbort(c))
          /\ WF_vars(ExtractDone(c) \/ ExtractError(c))
    /\ WF_vars(Tick)

SpecTimeout == InitEvents /\ [][NextTimeout]_vars /\ EventLoopFairness

\* SpecLifecycle: calls of extract, extractFromDocument and extractFromHTML
\* with listeners, each of which may throw when it is invoked; extract is
\* also called on a malformed URL
NextLifecycle ==
    \/ \E c \in CallIds, u \in {A1, BadUrl} : Invoke(c, u, Undefined, TRUE)
    \/ \E c \in CallIds : ExtractFromDocument(c, A1, TRUE)
    \/ \E c \in CallIds : ExtractFromHTML(c, A1, TRUE)
    \/ \E c \in CallIds : DirectDone(c)
    \/ Progress

SpecLifecycle == InitEvents /\ [][NextLifecycle]_vars

\* SpecDirect: extractFromDocument and extractFromHTML calls next to extract()
\* calls on the same URL, with plugins registered meanwhile
NextDirect ==
    \/ \E c \in 1..DirectCalls : Invoke(c, A1, Undefined, FALSE)
    \/ \E c \in 1..DirectCalls : ExtractFromDocument(c, A1, FALSE)
    \/ \E c \in 1..DirectCalls : ExtractFromHTML(c, A1, FALSE)
    \/ \E c \in 1..DirectCalls : DirectDone(c)
    \/ \E p \in {"p", "x"} : RegisterPlugin(p)
    \/ Progress

SpecDirect == InitEvents /\ [][NextDirect]_vars

(***************************************************************************)
(* The registry on its own: the exported functions are called in any order  *)
(***************************************************************************)
RegistryUrls == { <<"wikipedia.org">>, <<"reddit.com", "wikipedia.org">>,
                  <<"medium.com">>, <<"example.com">> }
RegistryNames == {"wikipedia", "custom"}

\* adapter objects handed to registerAdapter; priority may be omitted
RegisteredAdapters ==
    { SiteAdapter(n, ps, pr, "custom") :
        n \in RegistryNames,
        ps \in { <<"wikipedia.org">>, <<"example.com", "reddit.com">> },
        pr \in {NoPriority, Priority(-1), Priority(5), Priority(10)} }

InitRegistry ==
    /\ InitCore
    /\ cacheOptions = [enabled |-> TRUE, persistent |-> FALSE]
    /\ \E pm, pn, pg \in UnseenPriorities : adapters = builtinAdapters(pm, pn, pg)
    /\ IdleDetector /\ IdleCleaner /\ IdleContentCall /\ IdleCalls

RegistryFrame == UNCHANGED <<now, rlVars, svcVars, batch, detection, toolVars>>

GetSiteAdapter(url) ==
    /\ registryCall' = RegistryCall("getSiteAdapter", url, 0, getSiteAdapter(adapters, url))
    /\ UNCHANGED adapters
    /\ RegistryFrame

RegisterAdapter(adapter) ==
    /\ adapters' = registerAdapter(adapters, adapter)
    /\ registryCall' = RegistryCall("registerAdapter", adapter,
                                    findIndex(adapters, adapter.name), Undefined)
    /\ RegistryFrame

UnregisterAdapter(name) ==
    /\ adapters' = unregisterAdapter(adapters, name).adapters
    /\ registryCall' = RegistryCall("unregisterAdapter", name, findIndex(adapters, name),
                                    unregisterAdapter(adapters, name).result)
    /\ RegistryFrame

GetRegisteredAdapters ==
    /\ registryCall' = RegistryCall("getRegisteredAdapters", Undefined, 0,
                                    getRegisteredAdapters(adapters))
    /\ UNCHANGED adapters
    /\ RegistryFrame

ClearAdapters ==
    /\ adapters' = clearAdapters(adapters)
    /\ registryCall' = RegistryCall("clearAdapters", Undefined, 0, Undefined)
    /\ RegistryFrame

GetAdapterByName(name) ==
    /\ registryCall' = RegistryCall("getAdapterByName", name, findIndex(adapters, name),
                                    getAdapterByName(adapters, name))
    /\ UNCHANGED adapters
    /\ RegistryFrame

NextRegistry ==
    \/ \E url \in RegistryUrls : GetSiteAdapter(url)
    \/ \E adapter \in RegisteredAdapters : RegisterAdapter(adapter)
    \/ \E name \in RegistryNames : UnregisterAdapter(name)
    \/ GetRegisteredAdapters
    \/ ClearAdapters
    \/ \E name \in RegistryNames : GetAdapterByName(name)

SpecRegistry == InitRegistry /\ [][NextRegistry]_vars

(***************************************************************************)
(* detect() on its own: one call on each document and each options object   *)
(***************************************************************************)
\* the texts of the elements: long ones starting in lower or upper case and
\* ending in a letter or a full stop, and a short one
Texts == { Text(f, l, 20) : f \in {"a", "B"}, l \in {"a", "."} } \cup { Text("a", "a", 4) }
Tops == {0, 60, 121}
Box(top) == DOMRect(0, top, 1, 10)

DetectorElements ==
    { Element("P", t, Box(y)) : t \in Texts, y \in Tops }
    \cup { Element(tag, Text("a", "a", 20), Box(60)) : tag \in {"H2", "BLOCKQUOTE", "PRE"} }

RECURSIVE SeqsUpTo(_, _)
SeqsUpTo(S, n) ==
    IF n = 0 THEN { << >> }
    ELSE LET shorter == SeqsUpTo(S, n - 1)
         IN  shorter \cup { Append(q, x) : q \in {r \in shorter : Len(r) = n - 1}, x \in S }

DetectorOptions ==
    { ExtractionOptions(m, FALSE) : m \in {NoLength, Length(0), Length(3), Length(5)} }
    \cup { ExtractionOptions(NoLength, TRUE) }

InitDetector ==
    /\ InitCore
    /\ cacheOptions = [enabled |-> TRUE, persistent |-> FALSE]
    /\ IdleRegistry /\ IdleCleaner /\ IdleContentCall /\ IdleCalls
    /\ \E elements \in SeqsUpTo(DetectorElements, MaxElements), options \in DetectorOptions :
          detection = [pc |-> "called", elements |-> elements, options |-> options,
                       paragraphs |-> << >>, result |-> << >>]

DetectorFrame == UNCHANGED <<now, rlVars, svcVars, batch, adapters, registryCall, toolVars>>

\* detect up to the call of postProcess
Detect ==
    /\ detection.pc = "called"
    /\ detection' = [detection EXCEPT
                        !.pc = "filtered",
                        !.paragraphs = detectParagraphs(detection.elements, detection.options)]
    /\ DetectorFrame

\* return this.postProcess(paragraphs)
PostProcess ==
    /\ detection.pc = "filtered"
    /\ detection' = [detection EXCEPT !.pc = "returned",
                                      !.result = postProcess(detection.paragraphs)]
    /\ DetectorFrame

NextDetector == Detect \/ PostProcess

SpecDetector == InitDetector /\ [][NextDetector]_vars

(***************************************************************************)
(* clean() on its own: one call on each document and each options object    *)
(***************************************************************************)
\* the elements of the documents
CleanerElements ==
    { Node("div", {"ad"}, {"id"}, 10, << >>),
      Node("nav", {}, {}, 10, << >>),
      Node("p", {"js-x", "lead"}, {"onclick", "href"}, 60, << >>),
      Node("img", {}, {"width=0", "src"}, 0, << >>),
      Node("div", {}, {"hidden"}, 0, << >>),
      Node("p", {}, {"hidden"}, 60, << >>),
      Node("span", {"lead"}, {"style=display:none"}, 60, << >>),
      Node("a", {}, {"href", "aria-label"}, 10, << >>),
      Node("iframe", {}, {"src"}, 0, << >>),
      Node("div", {"share-buttons"}, {}, 60, << >>),
      Node("div", {"hidden", "banner"}, {"data-x"}, 60, << >>),
      Node("div", {"banner"}, {"height=0"}, 60, << >>) }

\* body with two child elements, or with one child that has one child
CleanerDocuments ==
    { <<Node("body", {}, {"onload"}, 0, <<2, 3>>), a, b>> : a, b \in CleanerElements }
    \cup { <<Node("body", {}, {"onload"}, 0, <<2>>), [a EXCEPT !.children = <<3>>], b>> :
              a \in {e \in CleanerElements : e.tag \in {"div", "p", "nav", "a"}},
              b \in CleanerElements }

CleanerOptions ==
    { defaultOptions,
      [defaultOptions EXCEPT !.aggressiveMode = TRUE],
      [defaultOptions EXCEPT !.preserved = {"iframes"}],
      [defaultOptions EXCEPT !.removals = {}, !.preserved = {"images", "videos", "iframes"}],
      [defaultOptions EXCEPT !.customRemove = {Tag("p")}, !.customPreserve = {"onclick"}],
      [defaultOptions EXCEPT !.removals = {"ads"}, !.aggressiveMode = TRUE,
                             !.preserved = {}] }

InitCleaner ==
    /\ InitCore
    /\ cacheOptions = [enabled |-> TRUE, persistent |-> FALSE]
    /\ IdleRegistry /\ IdleDetector /\ IdleContentCall /\ IdleCalls
    /\ \E d \in CleanerDocuments, opts \in CleanerOptions :
          cleaning = [pc |-> "called", heap |-> d, doc |-> 1, options |-> opts,
                      cleanDoc |-> 0]

Clean ==
    /\ cleaning.pc = "called"
    /\ LET r == clean(cleaning.heap, cleaning.doc, cleaning.options) IN
          cleaning' = [cleaning EXCEPT !.pc = "returned", !.heap = r.heap,
                                       !.cleanDoc = r.cleanDoc]
    /\ UNCHANGED <<now, rlVars, svcVars, batch, adapters, registryCall, detection,
                   contentCall, duplicates, stream, stats>>

NextCleaner == Clean

SpecCleaner == InitCleaner /\ [][NextCleaner]_vars

(***************************************************************************)
(* removeEmptyElements on its own, lines 227-243: one round of the while    *)
(* loop per step, on every document of up to PruneNodes elements below the  *)
(* body                                                                     *)
(***************************************************************************)
PruneNodes == 4

RECURSIVE preorder(_, _)
\* the element and its descendants in document order
preorder(heap, n) ==
    LET kids == heap[n].children
        upTo[i \in 0..Len(kids)] ==
            IF i = 0 THEN << >> ELSE upTo[i - 1] \o preorder(heap, kids[i])
    IN  <<n>> \o upTo[Len(kids)]

\* the mutant does not look for tables, lists or code below the element
isEmptyNoPreserved(heap, n) ==
    /\ textLength(heap, n) = 0
    /\ ~hasDescendant(heap, n, {"img", "video", "iframe"})

\* text.length === 0 && !hasImages && !hasPreservedContent
isEmpty(heap, n) ==
    /\ textLength(heap, n) = 0
    /\ ~hasDescendant(heap, n, {"img", "video", "iframe"})
    /\ ~hasDescendant(heap, n, {"table", "ul", "ol", "pre", "code"})

RECURSIVE pruneEach(_, _, _)
\* the forEach over the list that querySelectorAll returned: each element is
\* tested on the document as the removals before it have left it
pruneEach(heap, list, changed) ==
    IF list = << >> THEN [heap |-> heap, changed |-> changed]
    ELSE IF isEmpty(heap, Head(list))
         THEN pruneEach(removeAll(heap, {Head(list)}), Tail(list), TRUE)
         ELSE pruneEach(heap, Tail(list), changed)

\* one round of the while loop
pruneRound(heap, root) ==
    pruneEach(heap,
              SelectSeq(preorder(heap, root),
                        LAMBDA n : heap[n].tag \in {"div", "span", "p", "section", "article"}),
              FALSE)

PruneElements ==
    { Node("div", {}, {}, 0, << >>),
      Node("p", {}, {}, 5, << >>),
      Node("img", {}, {}, 0, << >>),
      Node("ul", {}, {}, 0, << >>),
      Node("a", {}, {}, 0, << >>) }

\* the trees on the body and PruneNodes elements: element k hangs below an
\* earlier element or the body
PruneShapes == {f \in [2..(PruneNodes + 1) -> 1..PruneNodes] : \A k \in DOMAIN f : f[k] < k}

childrenIn(shape, n) ==
    LET kids == {k \in DOMAIN shape : shape[k] = n}
        RECURSIVE ascending(_)
        ascending(set) ==
            IF set = {} THEN << >>
            ELSE LET k == CHOOSE x \in set : \A y \in set : x <= y
                 IN  <<k>> \o ascending(set \ {k})
    IN  ascending(kids)

PruneDocuments ==
    { [n \in 1..(PruneNodes + 1) |->
          IF n = 1 THEN Node("body", {}, {}, 0, childrenIn(shape, 1))
          ELSE [els[n] EXCEPT !.children = childrenIn(shape, n)]] :
      shape \in PruneShapes, els \in [2..(PruneNodes + 1) -> PruneElements] }

InitPrune ==
    /\ InitCore
    /\ cacheOptions = [enabled |-> TRUE, persistent |-> FALSE]
    /\ IdleRegistry /\ IdleDetector /\ IdleContentCall /\ IdleCalls
    /\ \E d \in PruneDocuments :
          cleaning = [pc |-> "pruning", heap |-> d, doc |-> 1, input |-> d,
                      changed |-> TRUE, rounds |-> 0]

PruneFrame ==
    UNCHANGED <<now, rlVars, svcVars, batch, adapters, registryCall, detection,
                contentCall, duplicates, stream, stats>>

\* while (changed) { changed = false; ...forEach... }
PruneRound ==
    /\ cleaning.pc = "pruning" /\ cleaning.changed
    /\ LET r == pruneRound(cleaning.heap, cleaning.doc) IN
          cleaning' = [cleaning EXCEPT !.heap = r.heap, !.changed = r.changed,
                                       !.rounds = @ + 1]
    /\ PruneFrame

\* the loop is left
PruneReturn ==
    /\ cleaning.pc = "pruning" /\ ~cleaning.changed
    /\ cleaning' = [cleaning EXCEPT !.pc = "pruned"]
    /\ PruneFrame

NextPrune == PruneRound \/ PruneReturn

\* the call runs on: nothing else is scheduled
SpecPrune == InitPrune /\ [][NextPrune]_vars /\ WF_vars(NextPrune)

(***************************************************************************)
(* ParagraphDetector.findParagraphElements, lines 58-165, on documents of   *)
(* the DOM above; detect() then runs on the elements it found               *)
(***************************************************************************)
\* the first element below the root that matches the selector, 0 for null
querySelector(heap, root, sel) ==
    LET found == SelectSeq(Tail(preorder(heap, root)), LAMBDA n : matches(heap[n], sel))
    IN  IF found = << >> THEN 0 ELSE Head(found)

\* the parent of the element, 0 for the root
parentElement(heap, root, n) ==
    IF \E k \in subtree(heap, root) : n \in Range(heap[k].children)
    THEN CHOOSE k \in subtree(heap, root) : n \in Range(heap[k].children)
    ELSE 0

\* paragraphSelectors, lines 4-12: a selector, or a selector for the parent
\* with the selector for the child ('div.content > div')
Star == [kind |-> "any", name |-> ""]
paragraphSelectors ==
    << <<Tag("p")>>,
       <<Class("content"), Tag("div")>>,
       <<Tag("article"), Tag("div")>>,
       <<Class("post-content"), Star>> >>

matchesPath(heap, root, n, path) ==
    LET isIt(k, sel) == sel.kind = "any" \/ matches(heap[k], sel) IN
    IF Len(path) = 1 THEN isIt(n, path[1])
    ELSE /\ isIt(n, path[2])
         /\ parentElement(heap, root, n) # 0
         /\ isIt(parentElement(heap, root, n), path[1])

\* excludeSelectors, lines 14-26, cut down to those that tell the elements
\* of the model's documents apart
excludeSelectors == {Tag("nav"), Tag("footer"), Class("advertisement"), ClassPart("sidebar")}

\* element.matches(selector) or element.closest(selector) for one of them
shouldExclude(heap, root, n) ==
    \E k \in subtree(heap, root) :
        /\ n \in subtree(heap, k)
        /\ \E sel \in excludeSelectors : matches(heap[k], sel)

\* text.length > 20
hasTextContent(heap, n) == textLength(heap, n) > 20

hasTextChildren(heap, root, n) ==
    \E i \in 1..Len(heap[n].children) :
        /\ hasTextContent(heap, heap[n].children[i])
        /\ ~shouldExclude(heap, root, heap[n].children[i])

\* the length of the text of the anchors below the element
linkTextLength(heap, n) ==
    LET anchors == SelectSeq(Tail(preorder(heap, n)), LAMBDA k : heap[k].tag = "a")
        sumTo[i \in 0..Len(anchors)] ==
            IF i = 0 THEN 0 ELSE sumTo[i - 1] + textLength(heap, anchors[i])
    IN  sumTo[Len(anchors)]

\* textLength * (1 - linkText.length / (textLength || 1)): the text that is
\* not link text, and 0 for an element without text
scoreContainer(heap, n) == textLength(heap, n) - linkTextLength(heap, n)

\* the candidates of findContentContainer after filter(Boolean)
candidateSelectors ==
    <<Tag("main"), Tag("article"), Attr("role=main"), Class("content"),
      Class("post-content"), Class("entry-content"), Attr("id=content")>>

candidates(heap, root) ==
    SelectSeq([i \in 1..Len(candidateSelectors) |->
                  querySelector(heap, root, candidateSelectors[i])],
              LAMBDA n : n # 0)

RECURSIVE bestOf(_, _, _, _)
\* candidates.forEach: if (score > bestScore) ...
bestOf(heap, list, bestCandidate, bestScore) ==
    IF list = << >> THEN bestCandidate
    ELSE IF scoreContainer(heap, Head(list)) > bestScore
         THEN bestOf(heap, Tail(list), Head(list), scoreContainer(heap, Head(list)))
         ELSE bestOf(heap, Tail(list), bestCandidate, bestScore)

\* findContentContainer: the candidate, 0 for null
findContentContainer(heap, root) == bestOf(heap, candidates(heap, root), 0, 0)

RECURSIVE walk(_, _, _)
\* the nodes the tree walker hands out below n: a rejected element is left
\* out with everything below it, a skipped one is passed through
walk(heap, root, n) ==
    LET kids == heap[n].children
        below(k) == IF shouldExclude(heap, root, k) THEN << >>
                    ELSE (IF hasTextContent(heap, k) THEN <<k>> ELSE << >>)
                         \o walk(heap, root, k)
        upTo[i \in 0..Len(kids)] == IF i = 0 THEN << >> ELSE upTo[i - 1] \o below(kids[i])
    IN  upTo[Len(kids)]

RECURSIVE dedupe(_, _)
\* if (!seen.has(element)) { seen.add(element); elements.push(element) }
dedupe(list, seen) ==
    IF list = << >> THEN << >>
    ELSE IF Head(list) \in seen THEN dedupe(Tail(list), seen)
         ELSE <<Head(list)>> \o dedupe(Tail(list), seen \cup {Head(list)})

\* the else branch of findParagraphElements: the selectors one after the other
flatScan(heap, root) ==
    LET hits(path) == SelectSeq(Tail(preorder(heap, root)),
                                LAMBDA n : /\ matchesPath(heap, root, n, path)
                                           /\ ~shouldExclude(heap, root, n))
        upTo[i \in 0..Len(paragraphSelectors)] ==
            IF i = 0 THEN << >> ELSE upTo[i - 1] \o hits(paragraphSelectors[i])
    IN  dedupe(upTo[Len(paragraphSelectors)], {})

\* findParagraphElements(doc): the container it chose and the elements
findParagraphElements(heap, root) ==
    LET contentContainer == findContentContainer(heap, root) IN
    [container |-> contentContainer,
     nodes |-> IF contentContainer # 0
               THEN SelectSeq(walk(heap, root, contentContainer),
                              LAMBDA n : ~hasTextChildren(heap, root, n))
               ELSE flatScan(heap, root)]

\* element.tagName
tagName(tag) ==
    CASE tag = "p" -> "P" [] tag = "div" -> "DIV" [] tag = "a" -> "A"
      [] tag = "main" -> "MAIN" [] tag = "article" -> "ARTICLE" [] tag = "nav" -> "NAV"
      [] OTHER -> "SPAN"

\* what detect reads off the element at position i of the list: its tag, its
\* trimmed text and its box; the elements lie one below the other
elementAt(heap, nodes, i) ==
    Element(tagName(heap[nodes[i]].tag),
            Text("A", ".", textLength(heap, nodes[i])),
            DOMRect(0, 100 * i, 1, 10))

\* the elements of the documents
ContainerElements ==
    { Node("main", {}, {}, 0, << >>),
      Node("div", {"content"}, {}, 0, << >>),
      Node("p", {}, {}, 30, << >>),
      Node("p", {}, {}, 10, << >>),
      Node("a", {}, {"href"}, 30, << >>),
      Node("nav", {}, {}, 0, << >>),
      Node("div", {}, {}, 0, << >>) }

ContainerNodes == 3
ContainerShapes ==
    {f \in [2..(ContainerNodes + 1) -> 1..ContainerNodes] : \A k \in DOMAIN f : f[k] < k}

ContainerDocuments ==
    { [n \in 1..(ContainerNodes + 1) |->
          IF n = 1 THEN Node("body", {}, {}, 0, childrenIn(shape, 1))
          ELSE [els[n] EXCEPT !.children = childrenIn(shape, n)]] :
      shape \in ContainerShapes, els \in [2..(ContainerNodes + 1) -> ContainerElements] }

InitContainer ==
    /\ InitCore
    /\ cacheOptions = [enabled |-> TRUE, persistent |-> FALSE]
    /\ IdleRegistry /\ IdleCleaner /\ IdleContentCall /\ IdleCalls
    /\ \E d \in ContainerDocuments :
          detection = [pc |-> "given", heap |-> d, doc |-> 1, container |-> 0,
                       elements |-> << >>, options |-> ExtractionOptions(NoLength, FALSE),
                       paragraphs |-> << >>, result |-> << >>]

\* const elements = this.findParagraphElements(doc)
FindParagraphElements ==
    /\ detection.pc = "given"
    /\ LET found == findParagraphElements(detection.heap, detection.doc) IN
          detection' = [detection EXCEPT
                          !.pc = "called",
                          !.container = found.container,
                          !.elements = [i \in 1..Len(found.nodes) |->
                                           elementAt(detection.heap, found.nodes, i)]]
    /\ DetectorFrame

NextContainer == FindParagraphElements \/ Detect \/ PostProcess

SpecContainer == InitContainer /\ [][NextContainer]_vars

(***************************************************************************)
(* The methods that take a content record and touch nothing else: each      *)
(* behaviour is one call on arguments drawn from the sets below             *)
(***************************************************************************)
FingerprintTitles ==
    {<< >>, Chars("c", 1), concat(Chars("b", 1), Chars("c", 1)), Chars("a", 1), Chars("a", 2)}
FingerprintTexts ==
    {Chars("a", 1), concat(Chars("a", 1), Chars("b", 1)),
     Chars("a", fingerprintLength - 1), Chars("a", fingerprintLength),
     concat(Chars("a", fingerprintLength), Chars("b", 1)),
     concat(Chars("a", fingerprintLength), Chars("c", 1))}
FingerprintContents ==
    [title : FingerprintTitles, cleanText : FingerprintTexts, url : {A1, A2}]

InitFingerprint ==
    \E c1, c2 \in FingerprintContents :
        contentCall = [pc |-> "called", op |-> "generateFingerprint", args |-> <<c1, c2>>,
                       results |-> <<Pending, Pending>>]

\* validateContent(content), lines 628-654; quality.score is counted in
\* hundredths
minWordCount == 50
minQualityScore == 30

\* !value for a string: only the empty string is falsy
falsy(value) == value = << >>

\* the mutant returns at the first violated rule
validateContentFirst(content) ==
    LET errors == IF falsy(content.title) THEN <<"Missing title">>
                  ELSE IF Len(content.paragraphs) = 0
                  THEN <<"No paragraphs extracted">>
                  ELSE IF content.wordCount < minWordCount
                  THEN <<"Content too short (less than 50 words)">>
                  ELSE IF content.quality.score < minQualityScore
                  THEN <<"Content quality too low">>
                  ELSE << >>
    IN  [valid |-> Len(errors) = 0, errors |-> errors]

validateContent(content) ==
    LET e1 == IF falsy(content.title) \/ length(content.title) = 0
              THEN <<"Missing title">> ELSE << >>
        e2 == IF Len(content.paragraphs) = 0
              THEN <<"No paragraphs extracted">> ELSE << >>
        e3 == IF content.wordCount < minWordCount
              THEN <<"Content too short (less than 50 words)">> ELSE << >>
        e4 == IF content.quality.score < minQualityScore
              THEN <<"Content quality too low">> ELSE << >>
        errors == e1 \o e2 \o e3 \o e4
    IN  [valid |-> Len(errors) = 0, errors |-> errors]

ValidatedContents ==
    [title : {<< >>, Chars("t", 5)},
     paragraphs : {<< >>, <<[index |-> 0, words |-> 60]>>,
                   <<[index |-> 0, words |-> 60], [index |-> 1, words |-> 40]>>},
     wordCount : {0, 10, minWordCount - 1, minWordCount, 100},
     quality : [score : {0, minQualityScore - 1, minQualityScore, 80}]]

InitValidate ==
    \E c \in ValidatedContents :
        contentCall = [pc |-> "called", op |-> "validateContent", args |-> <<c>>,
                       results |-> <<Pending>>]

\* exportContent and importContent, lines 397-421.  A Date and the string
\* that JSON writes for it are told apart by their type; an optional field is
\* the empty set when missing, else {value}.
Date(time) == [type |-> "Date", value |-> time]
ISOString(time) == [type |-> "string", value |-> time]

\* Date.prototype.toJSON, which JSON.stringify calls
dateToJSON(d) == ISOString(d.value)

\* JSON.stringify(content, null, 2) as the value the text denotes: strings
\* and numbers as they are, a missing field left out, a DOMRect as the object
\* of its numbers, a Date as its ISO string
serialize(content) ==
    [content EXCEPT
        !.metadata.publishDate = {dateToJSON(d) : d \in @},
        !.metadata.extractedAt = {dateToJSON(d) : d \in @}]

\* the format is not one that can be produced or read here
Unsupported(format) == [format |-> format, threw |-> TRUE]

exportContent(content, format) ==
    IF format = "json" THEN [format |-> "json", value |-> serialize(content)]
    ELSE Unsupported(format)

\* JSON.parse(data): the value that the text denotes, with no reviver
importContent(data, format) ==
    IF format = "json" THEN data.value ELSE Unsupported(format)

ExportedParagraphs ==
    {<< >>,
     <<[index |-> 0, words |-> 60, bounds |-> DOMRect(0, 0, 100, 40)]>>,
     <<[index |-> 0, words |-> 60, bounds |-> DOMRect(0, 0, 100, 40)],
       [index |-> 1, words |-> 40, bounds |-> DOMRect(10, 60, 80, 20)]>>}

ExportedContents ==
    [title : {<< >>, Chars("t", 5)},
     paragraphs : ExportedParagraphs,
     metadata : [author : {Chars("a", 3)},
                 publishDate : {{}, {Date(0)}, {Date(1)}},
                 extractedAt : {{}, {Date(1)}}]]

InitRoundTrip ==
    \E c \in ExportedContents :
        contentCall = [pc |-> "called", op |-> "exportContent", args |-> <<c>>,
                       results |-> <<Pending, Pending>>]

InitContent ==
    /\ InitCore
    /\ cacheOptions = [enabled |-> TRUE, persistent |-> FALSE]
    /\ IdleRegistry /\ IdleDetector /\ IdleCleaner /\ IdleCalls
    /\ InitFingerprint \/ InitValidate \/ InitRoundTrip

ContentFrame ==
    UNCHANGED <<now, rlVars, svcVars, batch, adapters, registryCall, detection, cleaning,
                duplicates, stream, stats>>

\* generateFingerprint(content) for the i-th of the two records
GenerateFingerprint(i) ==
    /\ contentCall.pc = "called"
    /\ contentCall.op = "generateFingerprint"
    /\ contentCall.results[i] = Pending
    /\ contentCall' =
          [contentCall EXCEPT
              !.results[i] = Done(generateFingerprint(contentCall.args[i]))]
    /\ ContentFrame

ValidateContent ==
    /\ contentCall.pc = "called"
    /\ contentCall.op = "validateContent"
    /\ contentCall' = [contentCall EXCEPT
                          !.pc = "returned",
                          !.results[1] = Done(validateContent(contentCall.args[1]))]
    /\ ContentFrame

\* exportContent(content, 'json')
ExportContent ==
    /\ contentCall.pc = "called"
    /\ contentCall.op = "exportContent"
    /\ contentCall' = [contentCall EXCEPT
                          !.pc = "exported",
                          !.results[1] = Done(exportContent(contentCall.args[1], "json"))]
    /\ ContentFrame

\* importContent(data, 'json') on the text that exportContent returned
ImportContent ==
    /\ contentCall.pc = "exported"
    /\ \E data \in contentCall.results[1] :
          contentCall' = [contentCall EXCEPT
                             !.pc = "returned",
                             !.results[2] = Done(importContent(data, "json"))]
    /\ ContentFrame

NextContent ==
    \/ \E i \in 1..2 : GenerateFingerprint(i)
    \/ ValidateContent
    \/ ExportContent
    \/ ImportContent

SpecContent == InitContent /\ [][NextContent]_vars

(***************************************************************************)
(* C1                                                                      *)
(***************************************************************************)
SameRequest(c, d) ==
    /\ c # d
    /\ calls[c].pc # "idle" /\ calls[d].pc # "idle"
    /\ calls[c].url = calls[d].url
    /\ calls[c].options = calls[d].options

PastLimit(c) == calls[c].pc \in {"awaitOwn", "awaitShared", "done"}

\* C1 as stated: when a call is issued while an earlier call with the same
\* URL and options has not resolved yet, the two resolve to the same result and
\* no more than one network fetch is issued for them.
C1_Original ==
    \A c, d \in CallIds :
        (SameRequest(c, d) /\ c \in calls[d].live
            /\ calls[c].pc = "done" /\ calls[d].pc = "done")
        => /\ calls[c].result = calls[d].result
           /\ Cardinality({w \in {calls[c].waitsFor, calls[d].waitsFor} \ {0} :
                              extraction[w].fetched = 1}) <= 1

\* C1 (amended): when a call is issued in the same turn as an earlier call
\* with the same URL and options, or while the extraction that call awaits is
\* still running, and the limiter admits both, the two calls await one and the
\* same extraction, which fetches at most once, and they resolve to the same
\* result (the same content, or the same error).
C1_Dedup ==
    \A c, d \in CallIds :
        (SameRequest(c, d) /\ c \in calls[d].busy
            /\ calls[c].admitted /\ calls[d].admitted
            /\ PastLimit(c) /\ PastLimit(d))
        => /\ calls[c].waitsFor = calls[d].waitsFor
           /\ extraction[calls[c].waitsFor].fetched <= 1
           /\ (calls[c].pc = "done" /\ calls[d].pc = "done")
                => calls[c].result = calls[d].result

\* two overlapping identical calls have resolved to the content of one fetch
C1_Witness ==
    \E c, d \in CallIds :
        /\ SameRequest(c, d) /\ c \in calls[d].busy
        /\ calls[c].pc = "done" /\ calls[d].pc = "done"
        /\ calls[c].result.success /\ calls[d].result = calls[c].result
        /\ extraction[calls[d].waitsFor].fetched = 1
        /\ fetchCount[calls[c].url] = 1

(***************************************************************************)
(* C2                                                                      *)
(***************************************************************************)
CacheKeyOf(c) == getCacheKey(calls[c].url, calls[c].options)

Retained(key) ==
    \E r \in cacheLog :
        r.key = key /\ now - r.time < ttl /\ Cardinality(r.others) < CacheMax

AdmittedBefore(i, k) ==
    {j \in 1..(i - 1) : rlLog[j].op = "check" /\ rlLog[j].key = k /\ rlLog[j].ok}

\* C3: for a limiter of maxRequests per window: a checkLimit(k) that follows
\* maxRequests admitted checkLimit(k) calls lying less than windowMs before it
\* returns false, and a checkLimit(k) issued when windowMs has elapsed since
\* every admitted call on k returns true again.
C3_RateLimit ==
    \A i \in DOMAIN rlLog :
        rlLog[i].op = "check" =>
            LET k == rlLog[i].key
                t == rlLog[i].time
                recent == {j \in AdmittedBefore(i, k) : t - rlLog[j].time < windowMs} IN
            /\ Cardinality(recent) >= maxRequests => ~rlLog[i].ok
            /\ recent = {} => rlLog[i].ok

\* a key was admitted maxRequests times, refused once in the same window, and
\* admitted again once the window had elapsed
C3_Witness ==
    \E i, j \in DOMAIN rlLog :
        /\ i < j
        /\ rlLog[i].op = "check" /\ rlLog[j].op = "check"
        /\ rlLog[i].key = rlLog[j].key
        /\ ~rlLog[i].ok /\ rlLog[j].ok
        /\ Cardinality(AdmittedBefore(i, rlLog[i].key)) = maxRequests
        /\ rlLog[j].time - rlLog[i].time >= windowMs

(***************************************************************************)
(* C4                                                                      *)
(***************************************************************************)
\* the window of the key holds maxRequests timestamps or more at time t
Exhausted(key, t) ==
    Cardinality({i \in DOMAIN requests[key] : t - requests[key][i] < windowMs})
        >= maxRequests

\* C4: a call issued when the window of its origin is exhausted records no
\* timestamp, and the step that resumes it returns the rate-limit failure and
\* leaves the cache, the hit and miss counters, the in-flight map, the fetches
\* and the extractions as they were.
C4_RateLimitFrame ==
    [][\A c \in CallIds :
        /\ (calls[c].pc = "idle" /\ calls'[c].pc # "idle" /\ ValidUrl(calls'[c].url)
              /\ Exhausted(hostname(calls'[c].url), now))
            => /\ calls'[c].pc = "limit" /\ ~calls'[c].admitted
               /\ requests' = requests
        /\ (calls[c].pc = "limit" /\ ~calls[c].admitted /\ calls'[c] # calls[c])
            => /\ calls'[c].pc = "done"
               /\ calls'[c].result = Failure(Err("RateLimit", hostname(calls[c].url)))
               /\ UNCHANGED <<requests, cache, persistentCache, cacheHits, cacheMisses,
                              pendingExtractions, fetchCount, extraction, cacheLog>>
      ]_vars

\* a call was refused while the window of its origin was full
C4_Witness ==
    \E c \in CallIds :
        /\ calls[c].pc = "done" /\ ~calls[c].admitted
        /\ calls[c].result.error.kind = "RateLimit"
        /\ Len(requests[hostname(calls[c].url)]) = maxRequests

(***************************************************************************)
(* C5                                                                      *)
(***************************************************************************)
Returned(c) == calls[c].pc \in {"done", "rejected"}

\* the extraction the call awaited has failed with an error of this kind
AwaitedFailure(c, kinds) ==
    /\ calls[c].admitted /\ calls[c].waitsFor # 0
    /\ extraction[calls[c].waitsFor].phase = "rejected"
    /\ extraction[calls[c].waitsFor].error.kind \in kinds

\* C5: the promise of extract() rejects only when a listener of the call has
\* thrown; otherwise it resolves, and a malformed URL, a refusal by the limiter
\* and a failed extraction (timeout, network, body, parse) each resolve to the
\* tagged failure that carries the error, with no data and an empty partial.
C5_NeverRejects ==
    \A c \in CallIds :
        /\ calls[c].pc = "rejected" => calls[c].threw
        /\ (calls[c].pc = "done" /\ ~calls[c].result.success)
            => /\ calls[c].result.error # NoError
               /\ calls[c].result.partial = Undefined
               /\ calls[c].result.data = NoContent
        /\ (Returned(c) /\ ~calls[c].threw)
            => /\ calls[c].pc = "done"
               /\ ~ValidUrl(calls[c].url)
                    => calls[c].result = Failure(Err("InvalidURL", ""))
               /\ (ValidUrl(calls[c].url) /\ ~calls[c].admitted)
                    => calls[c].result = Failure(Err("RateLimit", hostname(calls[c].url)))
               /\ AwaitedFailure(c, {"Timeout", "Network", "Body", "Parse", "Listener"})
                    => calls[c].result = Failure(extraction[calls[c].waitsFor].error)

\* a call with listeners on a malformed URL and one whose fetch timed out have
\* both resolved to a failure
C5_Witness ==
    \E c, d \in CallIds :
        /\ calls[c].events /\ calls[d].events
        /\ calls[c].pc = "done" /\ calls[c].result.error.kind = "InvalidURL"
        /\ calls[d].pc = "done" /\ calls[d].result.error.kind = "Timeout"

(***************************************************************************)
(* C6                                                                      *)
(***************************************************************************)
\* C6: the document handed to the extraction carries the marks of the plugins
\* with a beforeExtract hook, in registration order; the content carries the
\* marks of the plugins with an afterExtract hook, in registration order; that
\* content is what the cache entry holds and what the caller is given.
C6_HookOrder ==
    \A c \in CallIds :
        LET e == extraction[c] IN
        /\ (e.fetched = 1 /\ e.phase \in {"extracting", "saving", "resolved"})
            => e.content.pre = SelectSeq(e.seenBefore, HasBefore)
        /\ (e.fetched = 1 /\ e.phase \in {"saving", "resolved"})
            => /\ e.content.post = SelectSeq(e.seenAfter, HasAfter)
               /\ e.content.page[1] = calls[c].url
        /\ e.phase = "saving"
            => \E i \in DOMAIN cache :
                 cache[i].key = CacheKeyOf(c) /\ cache[i].value.content = e.content
        /\ (calls[c].pc = "done" /\ calls[c].result.success)
            => calls[c].result.data = extraction[calls[c].waitsFor].content

\* a call has returned content that two different plugins marked, before and
\* after the extraction
C6_Witness ==
    \E c \in CallIds :
        /\ calls[c].pc = "done" /\ calls[c].result.success
        /\ extraction[c].fetched = 1
        /\ Len(calls[c].result.data.pre) = 2
        /\ calls[c].result.data.pre[1] # calls[c].result.data.pre[2]
        /\ Len(calls[c].result.data.post) = 2
        /\ calls[c].result.data.post[1] # calls[c].result.data.post[2]

C9_BatchOrder ==
    batch.pc = "done" =>
        /\ Len(batch.results) = Len(batch.urls)
        /\ \A i \in DOMAIN batch.urls :
             /\ calls[i].url = batch.urls[i]
             /\ calls[i].pc = "done"
             /\ batch.results[i] = calls[i].result
             /\ batch.results[i].success => batch.results[i].data.page[1] = batch.urls[i]
             /\ ~ValidUrl(batch.urls[i]) <=> batch.results[i].error.kind = "InvalidURL"

\* a batch of three URLs in groups of two is finished; the call on the second
\* URL resolved before the call on the first one
C9_Witness ==
    /\ batch.pc = "done"
    /\ batch.urls = <<A1, BadUrl, A2>>
    /\ batch.concurrency = 2
    /\ batch.results[1].success
    /\ ~batch.results[2].success
    /\ batch.results[3].success

(***************************************************************************)
(* C10                                                                     *)
(***************************************************************************)
SameOrigin(i, j) ==
    /\ ValidUrl(batch.urls[i]) /\ ValidUrl(batch.urls[j])
    /\ hostname(batch.urls[i]) = hostname(batch.urls[j])

\* the extraction of URL f has failed, for a reason of its own
FailedUrl(f) ==
    /\ ~batch.results[f].success
    /\ batch.results[f].error.kind \in {"Timeout", "Network", "Body", "Parse"}

\* C10 as stated, in a consequence: in a finished batch no URL is refused by
\* the limiter when, with a failed URL of its origin left out, fewer than
\* maxRequests URLs of that origin precede it (it could not be refused then).
C10_Original ==
    batch.pc = "done" =>
        \A i, f \in DOMAIN batch.urls :
            (f < i /\ SameOrigin(i, f) /\ FailedUrl(f)
               /\ Cardinality({j \in 1..(i - 1) : j # f /\ SameOrigin(i, j)}) < maxRequests)
            => batch.results[i].error.kind # "RateLimit"

\* the group of the call, counted from 0
GroupOf(i) == (i - 1) \div batch.concurrency

\* C10 (amended): a batch in which an extraction fails goes on: while it waits
\* for a group some call of the group is still to resume, and once finished it
\* holds, for every URL, the outcome of that URL's own call: the failure of a
\* malformed URL, the refusal of the limiter (a failed URL of the same origin
\* has used its place in the window), or the outcome of the extraction the
\* call awaited.
C10_Independence ==
    /\ batch.pc = "waiting"
        => \/ microtasks # << >>
           \/ \E i \in Range(batch.ids) :
                /\ calls[i].pc \in {"awaitOwn", "awaitShared"}
                /\ Running(extraction[calls[i].waitsFor])
    /\ batch.pc = "done"
        => \A i \in DOMAIN batch.urls :
             LET r == batch.results[i]
                 w == calls[i].waitsFor IN
             /\ Len(batch.results) >= i
             /\ ~ValidUrl(batch.urls[i]) => r = Failure(Err("InvalidURL", ""))
             /\ (ValidUrl(batch.urls[i]) /\ ~calls[i].admitted)
                  => r = Failure(Err("RateLimit", hostname(batch.urls[i])))
             /\ calls[i].admitted
                  => /\ calls[w].url = batch.urls[i]
                     /\ r = IF extraction[w].phase = "resolved"
                            THEN Success(extraction[w].content)
                            ELSE Failure(extraction[w].error)

\* a finished batch in which an extraction of the first group failed and a URL
\* of a later group was extracted
C10_Witness ==
    /\ batch.pc = "done"
    /\ \E f, i \in DOMAIN batch.urls :
         /\ GroupOf(f) < GroupOf(i)
         /\ FailedUrl(f)
         /\ batch.results[i].success

(***************************************************************************)
(* C11                                                                     *)
(***************************************************************************)
RECURSIVE Flatten(_)
Flatten(ss) == IF ss = << >> THEN << >> ELSE Head(ss) \o Flatten(Tail(ss))

\* C11: the groups of a batch are consecutive pieces of the URL list, each of
\* `concurrency` URLs but for a shorter last one; a call of a later group is
\* issued only when every call of the groups before it has resolved; so no
\* more than `concurrency` calls of the batch are outstanding.
C11_Groups ==
    batch.pc # "idle" =>
        /\ Flatten(batch.chunks) = batch.urls
        /\ \A g \in DOMAIN batch.chunks :
             /\ Len(batch.chunks[g]) >= 1
             /\ Len(batch.chunks[g]) <= batch.concurrency
             /\ g < Len(batch.chunks) => Len(batch.chunks[g]) = batch.concurrency
        /\ \A i, j \in DOMAIN batch.urls :
             (GroupOf(i) < GroupOf(j) /\ calls[j].pc # "idle") => calls[i].pc = "done"
        /\ Cardinality({i \in CallIds : Outstanding(calls[i])}) <= batch.concurrency

\* two calls of the first group of a batch of three URLs are outstanding, the
\* third URL waits for its group
C11_Witness ==
    /\ batch.pc = "waiting"
    /\ Len(batch.urls) = 3 /\ batch.concurrency = 2
    /\ Outstanding(calls[1]) /\ Outstanding(calls[2])
    /\ calls[3].pc = "idle"

C13_FetchTimeout ==
    [][\A c \in CallIds :
        LET e == extraction[c] IN
        /\ (e.phase = "fetching" /\ extraction'[c].phase # "fetching")
            => /\ now - e.t0 > FetchTimeout
                    => /\ extraction'[c].phase = "rejected"
                       /\ extraction'[c].error = Err("Timeout", "")
               /\ now - e.t0 < FetchTimeout
                    => \/ extraction'[c].phase = "reading"
                       \/ /\ extraction'[c].phase = "rejected"
                          /\ extraction'[c].error = Err("Network", "")
        /\ (extraction'[c].error.kind = "Timeout" /\ e.error.kind # "Timeout")
            => e.phase = "fetching" /\ now - e.t0 >= FetchTimeout
        /\ (calls'[c].pc = "done" /\ calls[c].pc # "done" /\ calls[c].admitted
              /\ extraction[calls[c].waitsFor].error.kind = "Timeout")
            => calls'[c].result = Failure(Err("Timeout", ""))
      ]_vars

\* a fetch has timed out, the clock has moved on, and the call has resolved to the
\* timeout failure
C13_Witness ==
    \E c \in CallIds :
        /\ calls[c].pc = "done" /\ calls[c].waitsFor = c
        /\ calls[c].result = Failure(Err("Timeout", ""))
        /\ now - extraction[c].t0 > FetchTimeout

(***************************************************************************)
(* C14                                                                     *)
(***************************************************************************)
DirectPhases == {"direct", "directDone", "directFailed"}

\* C14: a step of extractFromDocument or extractFromHTML leaves the limiter's
\* timestamps (and so the remaining quota of every origin), the cache, its
\* counters, the in-flight map and the fetches as they were; the content such
\* a call returns carries the marks of the registered beforeExtract and
\* afterExtract hooks and its fingerprint.
C14_DirectFrame ==
    [][\A c \in CallIds :
        (extraction'[c].phase \in DirectPhases /\ extraction'[c] # extraction[c])
        => /\ UNCHANGED <<requests, cache, persistentCache, cacheHits, cacheMisses,
                          pendingExtractions, fetchCount, cacheLog>>
           /\ \A k \in LimiterKeys :
                getRemainingRequests(requests', k, now)
                    = getRemainingRequests(requests, k, now)
           /\ extraction'[c].phase = "directDone"
                => LET data == calls'[c].result.data IN
                   /\ calls'[c].pc = "done" /\ calls'[c].result.success
                   /\ data.page \in {GivenDocument(calls[c].url), ParsedDocument(calls[c].url)}
                   /\ data.pre = SelectSeq(extraction'[c].seenBefore, HasBefore)
                   /\ data.post = SelectSeq(extraction'[c].seenAfter, HasAfter)
                   /\ data.fingerprint
                        = generateFingerprint([data EXCEPT !.fingerprint = << >>])
      ]_vars

\* markup was extracted through a registered plugin while an extract() call on
\* the same URL was in flight, and the in-flight entry and the window of the
\* origin hold that call only
C14_Witness ==
    \E c, d \in CallIds :
        /\ extraction[c].phase = "directDone"
        /\ calls[c].result.data.page = ParsedDocument(calls[c].url)
        /\ Len(calls[c].result.data.post) >= 1
        /\ calls[d].pc = "awaitOwn" /\ calls[d].url = calls[c].url
        /\ Len(requests[hostname(calls[c].url)]) = 1
        /\ DOMAIN pendingExtractions = {pendingKeyOf(calls[d].url, calls[d].options)}

(***************************************************************************)
(* C15  dispatch rule of the registry                                       *)
(***************************************************************************)
\* the registry positions whose adapter has a pattern matching the URL
Matching(url) == {i \in 1..Len(adapters) : matchesUrl(adapters[i], url)}

\* C15: getSiteAdapter(url) returns null iff no registered adapter has a
\* pattern matching the URL; otherwise it returns a matching adapter whose
\* priority (0 when missing) no matching adapter exceeds, and which stands
\* before every other matching adapter of that priority in the registry.
C15_Dispatch ==
    registryCall.op = "getSiteAdapter" =>
        LET url == registryCall.arg
            M == Matching(url)
        IN  /\ (registryCall.result = Null) <=> (M = {})
            /\ M # {} =>
                 \E i \in M :
                    /\ registryCall.result = adapters[i]
                    /\ \A j \in M :
                         /\ priorityOf(adapters[j]) <= priorityOf(adapters[i])
                         /\ priorityOf(adapters[j]) = priorityOf(adapters[i]) => i <= j

\* a dispatch that returned an adapter standing after a matching adapter of
\* lower priority, one of the two without a priority property
C15_Witness ==
    /\ registryCall.op = "getSiteAdapter"
    /\ \E i, j \in Matching(registryCall.arg) :
          /\ i < j
          /\ priorityOf(adapters[i]) < priorityOf(adapters[j])
          /\ registryCall.result = adapters[j]
          /\ NoPriority \in {adapters[i].priority, adapters[j].priority}

(***************************************************************************)
(* C16  registry names stay unique; replace and remove                      *)
(***************************************************************************)
UniqueNames(as) == \A i, j \in 1..Len(as) : as[i].name = as[j].name => i = j

Present(as, name) == \E i \in 1..Len(as) : as[i].name = name

\* as without its entry at position i, the others in their order
Without(as, i) ==
    [k \in 1..(Len(as) - 1) |-> IF k < i THEN as[k] ELSE as[k + 1]]

\* registerAdapter(a) was called: a is the one entry of its name, whatever
\* dispatch returns under that name is a, and a name that was present keeps
\* the number of entries
RegisterLaw ==
    registryCall'.op = "registerAdapter" =>
        LET a == registryCall'.arg IN
        /\ Present(adapters, a.name) => Len(adapters') = Len(adapters)
        /\ ~Present(adapters, a.name) => Len(adapters') = Len(adapters) + 1
        /\ \A i \in 1..Len(adapters') : adapters'[i].name = a.name => adapters'[i] = a
        /\ getAdapterByName(adapters', a.name) = a
        /\ \A url \in RegistryUrls :
              LET d == getSiteAdapter(adapters', url)
              IN  d # Null /\ d.name = a.name => d = a

\* unregisterAdapter(name) was called: true iff the name was present, and
\* then exactly its entry is gone
UnregisterLaw ==
    registryCall'.op = "unregisterAdapter" =>
        LET name == registryCall'.arg IN
        /\ (registryCall'.result = TRUE) <=> Present(adapters, name)
        /\ IF Present(adapters, name)
           THEN \E i \in 1..Len(adapters) :
                   /\ adapters[i].name = name
                   /\ adapters' = Without(adapters, i)
           ELSE adapters' = adapters

\* a lookup by name returns the registry's entry of that name
LookupLaw ==
    registryCall'.op = "getAdapterByName" =>
        IF Present(adapters', registryCall'.arg)
        THEN /\ registryCall'.result \in Range(adapters')
             /\ registryCall'.result.name = registryCall'.arg
        ELSE registryCall'.result = Null

\* C16: after any sequence of registerAdapter, unregisterAdapter and
\* clearAdapters calls from the built-in registry no two entries have the
\* same name; registerAdapter of a present name keeps the number of entries
\* and later dispatch and lookups by that name use the new definition;
\* unregisterAdapter returns true iff the name was present and removes
\* exactly that entry.
C16_UniqueNames ==
    /\ [](UniqueNames(adapters))
    /\ [][RegisterLaw /\ UnregisterLaw /\ LookupLaw]_vars

\* registerAdapter replaced the built-in wikipedia adapter in place
C16_Witness ==
    /\ registryCall.op = "registerAdapter"
    /\ registryCall.index # 0
    /\ registryCall.arg.name = "wikipedia"
    /\ adapters[registryCall.index] = registryCall.arg
    /\ Len(adapters) = 8

(***************************************************************************)
(* C17  the limiter's queries record nothing                                *)
(***************************************************************************)
IsCheck(e) == e.op = "check"
IsQuery(e) == e.op \in {"remaining", "info"}

\* the checkLimit calls of a log replayed alone on a fresh limiter: the
\* results they return and the timestamps they leave
RECURSIVE ReplayChecks(_)
ReplayChecks(log) ==
    IF log = << >>
    THEN [oks |-> << >>, requests |-> [k \in LimiterKeys |-> << >>]]
    ELSE LET before == ReplayChecks(SubSeq(log, 1, Len(log) - 1))
             e == log[Len(log)]
             r == checkLimit(before.requests, e.key, e.time)
         IN  [oks |-> Append(before.oks, r.ok), requests |-> r.requests]

\* C17: getRemainingRequests and getRateLimitInfo never record a request:
\* every checkLimit call returns what it returns when the queries are taken
\* out of the sequence, and the stored timestamps of a key differ from those
\* of the query-free sequence at most by entries older than the window.
C17_QueriesRecordNothing ==
    LET checks == SelectSeq(rlLog, IsCheck)
        alone == ReplayChecks(checks)
    IN  /\ \A i \in 1..Len(checks) : checks[i].ok = alone.oks[i]
        /\ \A k \in LimiterKeys :
              /\ Range(requests[k]) \subseteq Range(alone.requests[k])
              /\ validRequests(requests, k, now) = validRequests(alone.requests, k, now)

\* a key was queried between two admitted checks and again when the window
\* was full, and the next check was refused
C17_Witness ==
    \E i, j, k, l \in 1..Len(rlLog) :
        /\ i < j /\ j < k /\ k < l
        /\ IsCheck(rlLog[i]) /\ rlLog[i].ok
        /\ IsQuery(rlLog[j]) /\ rlLog[j].remaining = maxRequests - 1
        /\ IsCheck(rlLog[k]) /\ rlLog[k].ok
        /\ IsCheck(rlLog[l]) /\ ~rlLog[l].ok
        /\ \A m \in {i, j, k, l} : rlLog[m].key = rlLog[i].key

(***************************************************************************)
(* C18  returned paragraphs are numbered from 0 without gaps                *)
(***************************************************************************)
Returned18 == detection.pc = "returned"

\* C18: in the list detect returns, the paragraph at position i (from 0) has
\* index i and id "p-i", also when the length filter dropped elements or
\* paragraphs were merged.
C18_Reindexed ==
    Returned18 =>
        \A i \in 1..Len(detection.result) :
            /\ detection.result[i].index = i - 1
            /\ detection.result[i].id = <<"p", i - 1>>

\* the first element was dropped by the filter and two later ones were
\* merged into the paragraph returned first
C18_Witness ==
    /\ Returned18
    /\ Len(detection.elements) = 3
    /\ Len(detection.paragraphs) = 2
    /\ detection.paragraphs[1].index = 1
    /\ Len(detection.result) = 1
    /\ detection.result[1].html = <<1, 2>>

(***************************************************************************)
(* C19  the merge law                                                       *)
(***************************************************************************)
\* the paragraphs at positions j and j + 1 of the filtered list ended up in
\* the same returned paragraph
MergedPair(j) ==
    \E k \in 1..Len(detection.result) :
        LET parts == Range(detection.result[k].html)
        IN  /\ detection.paragraphs[j].index \in parts
            /\ detection.paragraphs[j + 1].index \in parts

Special(p) == p.isHeading \/ p.isQuote \/ p.isCode

PassedLengths == detection.options.minParagraphLength

\* C20: when the options carry minParagraphLength = L, every paragraph that
\* detect returns has a text of length at least L, merged or not.
C20_MinLength ==
    Returned18 =>
        \A L \in PassedLengths :
            \A i \in 1..Len(detection.result) : detection.result[i].text.len >= L

\* L = 3 is below the default: a text of length 4 was returned next to a
\* merged one
C20_Witness ==
    /\ Returned18
    /\ PassedLengths = Length(3)
    /\ \E i \in 1..Len(detection.result) : detection.result[i].text.len = 4
    /\ \E i \in 1..Len(detection.result) : detection.result[i].text.len > 20

(***************************************************************************)
(* C21  clean() leaves its input alone                                      *)
(***************************************************************************)
RECURSIVE TreeOf(_, _)
\* the tree below a node, as a value
TreeOf(heap, n) ==
    [tag |-> heap[n].tag, classes |-> heap[n].classes, attrs |-> heap[n].attrs,
     text |-> heap[n].text,
     children |-> [i \in 1..Len(heap[n].children) |-> TreeOf(heap, heap[n].children[i])]]

\* C21: whatever the cleaning options, the tree of the input document after
\* clean(doc, options) equals its tree before the call; the removals, the
\* attribute and class rewrites and the pruning happen in the returned copy.
C21_InputUnchanged ==
    [][cleaning.pc = "called" /\ cleaning'.pc = "returned"
        => /\ TreeOf(cleaning'.heap, cleaning.doc) = TreeOf(cleaning.heap, cleaning.doc)
           /\ cleaning'.cleanDoc # cleaning.doc
           /\ subtree(cleaning'.heap, cleaning'.cleanDoc)
                 \cap subtree(cleaning'.heap, cleaning.doc) = {}]_vars

\* a call that removed an element from the copy and rewrote the attributes
\* and classes of another
C21_Witness ==
    /\ cleaning.pc = "returned"
    /\ Len(cleaning.heap[cleaning.cleanDoc].children) = 1
    /\ Len(cleaning.heap[cleaning.doc].children) = 2
    /\ \E n \in subtree(cleaning.heap, cleaning.cleanDoc) :
          /\ cleaning.heap[n].tag = "p"
          /\ cleaning.heap[n].attrs = {"href"}
          /\ cleaning.heap[n].classes = {"lead"}

(***************************************************************************)
(* C22  the fingerprint and the pair (title, first 1000 characters)         *)
(***************************************************************************)
\* the pair the fingerprint is said to be a digest of
FingerprintPair(content) == <<content.title, take(content.cleanText, fingerprintLength)>>

BothFingerprinted ==
    /\ contentCall.op = "generateFingerprint"
    /\ contentCall.results[1] # Pending
    /\ contentCall.results[2] # Pending

\* C22: two contents have equal fingerprints exactly when they agree on the
\* pair (title, first 1000 characters of cleanText), whatever their URL and
\* the rest of their text; the digest itself has no collisions.
C22_FingerprintOfPair ==
    BothFingerprinted =>
        (contentCall.results[1] = contentCall.results[2]
            <=> FingerprintPair(contentCall.args[1]) = FingerprintPair(contentCall.args[2]))

\* the half that the code keeps: agreeing on the pair gives equal fingerprints
C22_EqualPairsEqualFingerprints ==
    BothFingerprinted
        /\ FingerprintPair(contentCall.args[1]) = FingerprintPair(contentCall.args[2])
        => contentCall.results[1] = contentCall.results[2]

(***************************************************************************)
(* C23  findDuplicates                                                      *)
(***************************************************************************)
\* the URLs of the list, in its order, whose extraction succeeded with the
\* fingerprint fp
Extracted(fp) ==
    LET ok == {i \in DOMAIN duplicates.urls :
                  calls[i].result.success /\ calls[i].result.data.fingerprint = fp}
        members[i \in 0..Len(duplicates.urls)] ==
            IF i = 0 THEN << >>
            ELSE IF i \in ok THEN Append(members[i - 1], duplicates.urls[i])
            ELSE members[i - 1]
    IN  members[Len(duplicates.urls)]

SuccessFingerprints ==
    {calls[i].result.data.fingerprint :
        i \in {j \in DOMAIN duplicates.urls : calls[j].result.success}}

\* C23: findDuplicates(urls) returns exactly the fingerprint groups with at
\* least two of the listed URLs: one group for each fingerprint that two or
\* more successful extractions share, holding those URLs and no other, and
\* no place for a URL whose extraction failed.
C23_DuplicateGroups ==
    duplicates.pc = "done" =>
        /\ \A i \in DOMAIN duplicates.result :
              /\ Len(duplicates.result[i].urls) >= 2
              /\ duplicates.result[i].urls = Extracted(duplicates.result[i].fp)
              /\ \A j \in DOMAIN duplicates.result :
                    duplicates.result[j].fp = duplicates.result[i].fp => j = i
        /\ \A fp \in SuccessFingerprints :
              Len(Extracted(fp)) >= 2
                  => \E i \in DOMAIN duplicates.result : duplicates.result[i].fp = fp

\* a list of three URLs: a page and its mirror were extracted and form the
\* one group returned, the third URL was extracted and is in no group
C23_Witness ==
    /\ duplicates.pc = "done"
    /\ Len(duplicates.urls) = 3
    /\ \A i \in 1..3 : calls[i].result.success
    /\ Len(duplicates.result) = 1
    /\ duplicates.result[1].urls \in {<<A1, B1>>, <<B1, A1>>}

(***************************************************************************)
(* C24  the chunks of extractStream                                         *)
(***************************************************************************)
\* the chunk size of the claim: options.chunkSize when it is at least 1, and
\* 10 when it is not set
ClaimedChunkSize == IF stream.options = NoLength THEN 10 ELSE CHOOSE n \in stream.options : TRUE

RECURSIVE Yielded(_)
Yielded(chunks) ==
    IF chunks = << >> THEN << >> ELSE Head(chunks).paragraphs \o Yielded(Tail(chunks))

RECURSIVE Words(_)
Words(paragraphs) ==
    IF paragraphs = << >> THEN 0 ELSE Head(paragraphs).words + Words(Tail(paragraphs))

\* C24: for a successful extraction with n paragraphs and chunk size c
\* (options.chunkSize >= 1, or 10 when unset) the chunks yielded so far are the
\* paragraph list cut from its start into pieces of c, each with the word
\* count of its own paragraphs; when the generator has finished, there are
\* exactly ceil(n/c) of them and together they are the whole list.
C24_StreamChunks ==
    stream.pc \in {"yielded", "returned"} /\ stream.options # Length(0) =>
        LET paragraphs == calls[stream.id].result.data.paragraphs
            n == Len(paragraphs)
            c == ClaimedChunkSize
            chunks == stream.chunks IN
        /\ calls[stream.id].result.success
        /\ Yielded(chunks) = SubSeq(paragraphs, 1, Len(Yielded(chunks)))
        /\ \A k \in DOMAIN chunks :
              /\ chunks[k].wordCount = Words(chunks[k].paragraphs)
              /\ Len(chunks[k].paragraphs) >= 1
              /\ Len(chunks[k].paragraphs) = c \/ (k = Len(chunks) /\ Len(Yielded(chunks)) = n)
        /\ stream.pc = "returned" =>
              /\ Len(chunks) = (n + c - 1) \div c
              /\ Yielded(chunks) = paragraphs
              /\ stream.returned = calls[stream.id].result.data

\* eleven paragraphs streamed without a chunk size: ten, then one
C24_Witness ==
    /\ stream.pc = "returned"
    /\ stream.options = NoLength
    /\ Len(stream.chunks) = 2
    /\ Len(stream.chunks[1].paragraphs) = 10
    /\ Len(stream.chunks[2].paragraphs) = 1
    /\ stream.chunks[2].wordCount = 12

(***************************************************************************)
(* C25  validateContent                                                     *)
(***************************************************************************)
\* the message of each rule that the content violates
ViolatedRules(content) ==
    {m \in {"Missing title", "No paragraphs extracted",
            "Content too short (less than 50 words)", "Content quality too low"} :
        \/ m = "Missing title" /\ content.title = << >>
        \/ m = "No paragraphs extracted" /\ content.paragraphs = << >>
        \/ m = "Content too short (less than 50 words)" /\ ~(content.wordCount >= 50)
        \/ m = "Content quality too low" /\ ~(content.quality.score >= 30)}

\* C25: validateContent returns one error for each violated rule (title
\* non-empty, at least one paragraph, wordCount >= 50, quality.score >= 0.3),
\* each with the message of its rule, and valid exactly when there is none.
C25_ValidationRules ==
    contentCall.op = "validateContent" /\ contentCall.pc = "returned" =>
        \A r \in contentCall.results[1] :
            /\ Len(r.errors) = Cardinality(ViolatedRules(contentCall.args[1]))
            /\ Range(r.errors) = ViolatedRules(contentCall.args[1])
            /\ r.valid <=> r.errors = << >>

\* C25, the frame: the call leaves the content as it was
C25_ContentUnchanged ==
    [][contentCall.op = "validateContent" => contentCall'.args = contentCall.args]_vars

\* a content that breaks the two rules on numbers and keeps the other two
C25_Witness ==
    /\ contentCall.op = "validateContent"
    /\ contentCall.pc = "returned"
    /\ \E r \in contentCall.results[1] :
          /\ ~r.valid
          /\ r.errors = <<"Content too short (less than 50 words)", "Content quality too low">>
    /\ contentCall.args[1].wordCount = 49
    /\ contentCall.args[1].quality.score = 29

(***************************************************************************)
(* C26  the JSON round trip                                                 *)
(***************************************************************************)
\* C26: importContent(exportContent(c, 'json'), 'json') is equal to c, field
\* by field: the title, every paragraph with its bounds, and the metadata
\* with its dates.
C26_RoundTrip ==
    contentCall.op = "exportContent" /\ contentCall.pc = "returned" =>
        \A imported \in contentCall.results[2] :
            /\ imported.title = contentCall.args[1].title
            /\ imported.paragraphs = contentCall.args[1].paragraphs
            /\ imported.metadata.author = contentCall.args[1].metadata.author
            /\ imported.metadata.publishDate = contentCall.args[1].metadata.publishDate
            /\ imported.metadata.extractedAt = contentCall.args[1].metadata.extractedAt

\* what the round trip keeps: everything but the dates, which come back as
\* the strings written for them
C26_AllButDates ==
    contentCall.op = "exportContent" /\ contentCall.pc = "returned" =>
        \A imported \in contentCall.results[2] :
            /\ imported.title = contentCall.args[1].title
            /\ imported.paragraphs = contentCall.args[1].paragraphs
            /\ imported.metadata.author = contentCall.args[1].metadata.author
            /\ imported.metadata.publishDate
                  = {ISOString(d.value) : d \in contentCall.args[1].metadata.publishDate}
            /\ imported.metadata.extractedAt
                  = {ISOString(d.value) : d \in contentCall.args[1].metadata.extractedAt}

(***************************************************************************)
(* C27  the cache statistics                                                *)
(***************************************************************************)
\* the calls made since the last clearCache
Counted == {c \in CallIds : c > Since /\ calls[c].pc # "idle"}

\* the lookup of the call found a fresh entry, or found none
LookupHit(c) == extraction[c].phase # "none" /\ extraction[c].hit
LookupMiss(c) == extraction[c].phase # "none" /\ ~extraction[c].hit

\* the call returned the content of the cache, or issued a fetch
ServedFromCache(c) == extraction[c].hit /\ calls[c].result.success
WentOnToFetch(c) == extraction[c].fetched = 1

\* the statistics last read are those of the counters, and the rate is the
\* share of the hits
StatsRead ==
    stats.pc = "read" /\ stats.at = Invoked =>
        \A r \in stats.last :
            /\ r.hits = cacheHits /\ r.misses = cacheMisses
            /\ r.size = Len(cache) /\ r.itemCount = Len(cache)
            /\ IF r.hits + r.misses = 0 THEN r.hitRate.num = 0
               ELSE r.hitRate.num * (r.hits + r.misses) = r.hits * r.hitRate.den

StatsCleared ==
    stats.pc = "cleared" /\ stats.since = Invoked =>
        cacheHits = 0 /\ cacheMisses = 0 /\ cache = << >>

\* C27 as stated: between non-overlapping calls, hits is the number of calls
\* served from the cache and misses the number of calls that went on to
\* fetch; hitRate = hits / (hits + misses), and clearCache resets all.
C27_CountsServedAndFetched ==
    Quiet =>
        /\ cacheHits = Cardinality({c \in Counted : ServedFromCache(c)})
        /\ cacheMisses = Cardinality({c \in Counted : WentOnToFetch(c)})
        /\ StatsRead
        /\ StatsCleared

\* C27 (amended): between non-overlapping calls, hits is the number of
\* lookups that found a fresh entry and misses the number of lookups that
\* found none, whether or not the call then returned the entry or fetched;
\* hitRate = hits / (hits + misses), 0 without lookups, and clearCache sets
\* both counters to 0 and empties the cache.
C27_CountsLookups ==
    Quiet =>
        /\ cacheHits = Cardinality({c \in Counted : LookupHit(c)})
        /\ cacheMisses = Cardinality({c \in Counted : LookupMiss(c)})
        /\ StatsRead
        /\ StatsCleared

\* the statistics read after a miss and a hit: one in two
C27_Witness ==
    /\ Quiet
    /\ stats.pc = "read" /\ stats.at = 2 /\ stats.since = 0
    /\ \E r \in stats.last : r.hits = 1 /\ r.misses = 1 /\ r.hitRate = Ratio(1, 2)
    /\ \A c \in 1..2 : calls[c].result.success

(***************************************************************************)
(* C28  the sliding window                                                  *)
(***************************************************************************)
\* the admitted checkLimit calls on key k in the history
Admitted(k) == {j \in DOMAIN rlLog : rlLog[j].op = "check" /\ rlLog[j].key = k /\ rlLog[j].ok}

\* C28: after any sequence of checkLimit calls on any keys at non-decreasing
\* times: for every key, every interval [s, s + windowMs) holds at most
\* maxRequests admitted calls on that key; a call returns true exactly when
\* fewer than maxRequests admitted calls on its key lie less than windowMs
\* before it, so that the calls on other keys have no part in its outcome;
\* and the timestamps kept for a key are those of admitted calls on that key.
C28_SlidingWindow ==
    /\ \A i, j \in DOMAIN rlLog : i < j => rlLog[i].time <= rlLog[j].time
    /\ \A k \in LimiterKeys, s \in (0 - windowMs)..MaxTime :
          Cardinality({j \in Admitted(k) :
                          s <= rlLog[j].time /\ rlLog[j].time < s + windowMs}) <= maxRequests
    /\ \A i \in DOMAIN rlLog :
          rlLog[i].op = "check" =>
              rlLog[i].ok <=>
                  Cardinality({j \in Admitted(rlLog[i].key) :
                                  j < i /\ rlLog[i].time - rlLog[j].time < windowMs})
                      < maxRequests
    /\ \A k \in LimiterKeys :
          /\ Range(requests[k]) \subseteq {rlLog[j].time : j \in Admitted(k)}
          /\ Len(requests[k]) <= maxRequests

\* one key is refused with its window full, and the other key is admitted at
\* the same time
C28_Witness ==
    \E i, j \in DOMAIN rlLog :
        /\ i < j
        /\ rlLog[i].op = "check" /\ rlLog[j].op = "check"
        /\ rlLog[i].key # rlLog[j].key
        /\ rlLog[i].time = rlLog[j].time
        /\ ~rlLog[i].ok /\ rlLog[j].ok
        /\ Len(requests[rlLog[i].key]) = maxRequests

(***************************************************************************)
(* C29  the key of the in-flight map                                        *)
(***************************************************************************)
\* the call awaits the extraction that another call started
Deduplicated(c) == calls[c].pc = "awaitShared"

\* C29: the in-flight map is keyed by the cache key: a call that awaits the
\* extraction of another call has the cache key of that call, and two calls
\* that run extractions of their own at the same time have different cache
\* keys; so a deduplicated call is served under its own cache key.
C29_KeyedByCacheKey ==
    /\ \A c \in CallIds :
          Deduplicated(c) => CacheKeyOf(c) = CacheKeyOf(calls[c].waitsFor)
    /\ \A c, d \in CallIds :
          /\ c # d
          /\ calls[c].pc = "awaitOwn" /\ Running(extraction[c])
          /\ calls[d].pc = "awaitOwn" /\ Running(extraction[d])
          => CacheKeyOf(c) # CacheKeyOf(d)

\* the half that holds: calls with one cache key never run two extractions
C29_SameCacheKeyShares ==
    \A c, d \in CallIds :
        /\ c # d
        /\ calls[c].pc = "awaitOwn" /\ Running(extraction[c])
        /\ calls[d].pc = "awaitOwn" /\ Running(extraction[d])
        => CacheKeyOf(c) # CacheKeyOf(d)

(***************************************************************************)
(* C30  a failed extraction                                                 *)
(***************************************************************************)
\* the extraction that call c started has failed
Aborted(c) ==
    /\ extraction[c].phase = "rejected"
    /\ extraction[c].error.kind \in {"Network", "Timeout", "Body", "Parse", "Plugin"}

\* call d is a call of the same request issued after call c returned
IssuedAfter(c, d) == d > c /\ SameRequest(c, d) /\ c \notin calls[d].live

\* what an aborted extraction leaves behind: no content, no afterExtract hook
\* after a failure before them and no hook at all after a failure of the
\* fetch, no cache entry of its own, no in-flight entry once its call has
\* returned, and its error for every call that awaited it
AbortedAsAWhole(c) ==
    LET e == extraction[c] IN
    /\ e.content = NoContent
    /\ e.error # Err("Plugin", "afterExtract") => e.seenAfter = << >>
    /\ e.error.kind \in {"Network", "Timeout", "Body"} => e.seenBefore = << >>
    /\ \A i \in DOMAIN cache :
          cache[i].key = CacheKeyOf(c)
          => \E d \in CallIds \ {c} :
                /\ extraction[d].phase \in {"saving", "resolved"}
                /\ extraction[d].content = cache[i].value.content
    /\ Returned(c) => \A key \in DOMAIN pendingExtractions : pendingExtractions[key] # c
    /\ \A d \in CallIds :
          (calls[d].waitsFor = c /\ Returned(d)) => calls[d].result = Failure(e.error)

\* extraction b, of the same request as call c and started after it, found
\* nothing in the cache and issued a fetch
FreshFetch(c, b) ==
    /\ b > c /\ SameRequest(c, b)
    /\ ~extraction[b].hit
    /\ extraction[b].fetched = 1

\* call d is served by an extraction started after that of call c: one that
\* issued a fetch, or one that found in the cache what such a fetch had stored
FetchesAfresh(c, d) ==
    LET o == calls[d].waitsFor IN
    /\ o > c
    /\ \/ FreshFetch(c, o)
       \/ /\ extraction[o].hit
          /\ \E b \in CallIds :
                b < o /\ FreshFetch(c, b) /\ calls[b].pc = "done" /\ calls[b].result.success

\* C30 as stated: a failed extraction is aborted as a whole, and an identical
\* extract() call that follows it is served by a fresh fetch.
C30_Original ==
    \A c \in CallIds :
        Aborted(c) =>
            /\ AbortedAsAWhole(c)
            /\ \A d \in CallIds : (IssuedAfter(c, d) /\ Returned(d)) => FetchesAfresh(c, d)

\* C30 (amended): a failed extraction is aborted as a whole: no later hook
\* runs, no cache entry is written, the in-flight entry is removed and every
\* call that awaited it gets its failure; an identical extract() call issued
\* after the failing call returned is, when the rate limiter admits it, served
\* by a fetch issued after the failure, never by the failed extraction.
C30_Aborted ==
    \A c \in CallIds :
        Aborted(c) =>
            /\ AbortedAsAWhole(c)
            /\ \A d \in CallIds :
                  (IssuedAfter(c, d) /\ Returned(d) /\ calls[d].admitted)
                      => FetchesAfresh(c, d)

\* the hook of the plugin failed an extraction that two calls awaited; both
\* got that failure, and the call after them fetched again and succeeded
C30_Witness ==
    \E c, b, d \in CallIds :
        /\ Aborted(c) /\ extraction[c].error.kind = "Plugin"
        /\ b # c /\ calls[b].waitsFor = c
        /\ calls[b].pc = "done" /\ calls[c].pc = "done"
        /\ calls[b].result = calls[c].result /\ ~calls[c].result.success
        /\ IssuedAfter(c, d) /\ calls[d].waitsFor = d
        /\ calls[d].pc = "done" /\ calls[d].result.success
        /\ fetchCount[A1] = 2

(***************************************************************************)
(* C31  the persistent store                                                *)
(***************************************************************************)
\* this step is the cache lookup of the extraction that call c starts
Lookup(c) == extraction[c].phase = "none" /\ extraction'[c].phase = "cacheWait"

\* the primary cache holds an entry of the key that is younger than ttl
PrimaryFresh(key) ==
    \E i \in DOMAIN cache :
        /\ cache[i].key = key
        /\ now - cache[i].start <= ttl
        /\ now - cache[i].value.timestamp < ttl

\* the secondary entries of the key that are younger than ttl
SecondaryFresh(key) ==
    {e \in persistentCache : e.key = key /\ now - e.value.timestamp < ttl}

C31_HitWithoutFetch ==
    \A c \in CallIds : extraction[c].hit => extraction[c].fetched = 0

InputOf(n) == n - Cardinality(DOMAIN cleaning.heap) \div 2

HiddenByStyle(node) == "style=display:none" \in node.attrs
HiddenByAttribute(node) == "hidden" \in node.attrs
HiddenByClass(node) == node.classes \cap {"hidden", "hide", "sr-only"} # {}
HiddenBySize(node) ==
    node.attrs \cap {"width=0", "height=0"} # {} /\ node.tag # "img"

\* the elements of the returned document
Cleaned == subtree(cleaning.heap, cleaning.cleanDoc) \ {cleaning.cleanDoc}

\* C32: the document returned by clean contains no element that was hidden in
\* the input by an inline display:none style, a hidden attribute, a hidden
\* class name or a zero width or height attribute (images excepted).
C32_NoHiddenElement ==
    cleaning.pc = "returned" =>
        \A n \in Cleaned :
            LET node == cleaning.heap[InputOf(n)] IN
            /\ ~HiddenByStyle(node)
            /\ ~HiddenByAttribute(node)
            /\ ~HiddenByClass(node)
            /\ ~HiddenBySize(node)

\* the half that the code keeps: no element hidden by a class name or by a
\* zero width or height is returned
C32_HiddenByClassOrSize ==
    cleaning.pc = "returned" =>
        \A n \in Cleaned :
            LET node == cleaning.heap[InputOf(n)] IN
            ~HiddenByClass(node) /\ ~HiddenBySize(node)

\* an element hidden by its attribute or its style is returned without them
C32_Survivor ==
    /\ cleaning.pc = "returned"
    /\ \E n \in Cleaned :
          /\ HiddenByAttribute(cleaning.heap[InputOf(n)]) \/ HiddenByStyle(cleaning.heap[InputOf(n)])
          /\ cleaning.heap[n].attrs = {}

(***************************************************************************)
(* C33  empty-element pruning                                               *)
(***************************************************************************)
Pruned == cleaning.pc = "pruned"

\* the elements that are in the document now
InDocument == subtree(cleaning.heap, cleaning.doc)

\* no block element of the document is empty
FixedPoint ==
    \A n \in InDocument :
        cleaning.heap[n].tag \in {"div", "span", "p", "section", "article"}
            => \/ textLength(cleaning.heap, n) > 0
               \/ hasDescendant(cleaning.heap, n, {"img", "video", "iframe"})
               \/ hasDescendant(cleaning.heap, n, {"table", "ul", "ol", "pre", "code"})

\* an element with media or a table, list or code below it is still there
MediaAndStructureKept ==
    \A n \in subtree(cleaning.input, cleaning.doc) :
        hasDescendant(cleaning.input, n,
                      {"img", "video", "iframe", "table", "ul", "ol", "pre", "code"})
            => n \in InDocument

\* C33: empty-element pruning terminates on every document, and when it has
\* ended no div, span, p, section or article of the document is empty (no
\* text, no media below it, no table, list or code below it), while every
\* element with media or such a structure below it is still in the document.
C33_PruningFixedPoint ==
    /\ <>Pruned
    /\ [](Pruned => FixedPoint /\ MediaAndStructureKept)

\* the loop leaves what the pass of clean leaves
C33_SameAsOnePass ==
    Pruned => LET once == removeEmptyElements(cleaning.input, cleaning.doc) IN
              TreeOf(cleaning.heap, cleaning.doc) = TreeOf(once, cleaning.doc)

\* a chain of three nested empty wrappers next to a paragraph: the chain is
\* gone after one round, the paragraph is left, and the second round ends
\* the loop
C33_Witness ==
    /\ Pruned
    /\ cleaning.input[1].children = <<2, 5>>
    /\ cleaning.input[2].tag = "div" /\ cleaning.input[2].children = <<3>>
    /\ cleaning.input[3].tag = "div" /\ cleaning.input[3].children = <<4>>
    /\ cleaning.input[4].tag = "div"
    /\ cleaning.input[5].tag = "p"
    /\ cleaning.heap[1].children = <<5>>
    /\ cleaning.rounds = 2

(***************************************************************************)
(* C34  an empty content container                                          *)
(***************************************************************************)
Returned34 == detection.pc = "returned"

\* the candidate containers of the document handed to detect
Candidates34 == Range(candidates(detection.heap, detection.doc))

\* the container is empty, or all of its text is link text
EmptyOrLinksOnly(n) ==
    \/ textLength(detection.heap, n) = 0
    \/ linkTextLength(detection.heap, n) = textLength(detection.heap, n)

\* C34: when the document has candidate containers and each of them is empty
\* or holds link text only, detect returns the empty sequence, whatever
\* paragraph-like elements the rest of the document has; the flat selector
\* scan is used only when the document has no candidate container.
C34_EmptyContainer ==
    Returned34 =>
        /\ (Candidates34 # {} /\ \A n \in Candidates34 : EmptyOrLinksOnly(n))
               => detection.result = << >>
        /\ detection.container = 0 => Candidates34 = {}

\* what the code does instead: the flat scan is used exactly when no
\* candidate has text that is not link text
C34_FallbackWithoutScore ==
    Returned34 =>
        (detection.container = 0
            <=> \A n \in Candidates34 : scoreContainer(detection.heap, n) <= 0)

(***************************************************************************)
(* C35  one timestamp per admitted call                                     *)
(***************************************************************************)
\* this step is the invocation of call c on a well-formed URL
Issued(c) == calls[c].pc = "idle" /\ calls'[c].pc = "limit"

\* the timestamps of the key that equal t
Stamps(reqs, key, t) == Cardinality({i \in DOMAIN reqs[key] : reqs[key][i] = t})

\* C35: the invocation of an admitted extract() call adds exactly one
\* timestamp, the current time, to the list of the URL's hostname and a
\* refused one adds none; no other step of a call (the cache lookup, joining
\* an in-flight extraction, the fetch) touches the lists; a call issued when
\* maxRequests timestamps of its hostname lie in the window is refused, cached
\* or not; and a fetch is issued only by a call that was admitted.
C35_OneTimestampPerCall ==
    [][/\ \A c \in CallIds :
             Issued(c) =>
                 LET key == hostname(calls'[c].url) IN
                 /\ \A k \in LimiterKeys \ {key} : requests'[k] = requests[k]
                 /\ calls'[c].admitted <=> ~Exhausted(key, now)
                 /\ calls'[c].admitted =>
                       /\ Stamps(requests', key, now) = Stamps(requests, key, now) + 1
                       /\ \A t \in 0..MaxTime :
                             t # now => Stamps(requests', key, t) <= Stamps(requests, key, t)
                 /\ ~calls'[c].admitted => requests' = requests
       /\ (\A c \in CallIds : ~Issued(c)) => requests' = requests
       /\ \A c \in CallIds :
             (extraction[c].fetched = 0 /\ extraction'[c].fetched = 1)
                 => calls[c].admitted
       /\ \A u \in Urls :
             fetchCount'[u] # fetchCount[u]
                 => \E c \in CallIds :
                       /\ calls[c].url = u /\ calls[c].admitted
                       /\ extraction[c].fetched = 0 /\ extraction'[c].fetched = 1
      ]_vars

\* a refused call never gets as far as the cache
C35_RefusedReturnsRateLimit ==
    \A c \in CallIds :
        (Returned(c) /\ ValidUrl(calls[c].url) /\ ~calls[c].admitted)
            => /\ calls[c].result = Failure(Err("RateLimit", hostname(calls[c].url)))
               /\ calls[c].waitsFor = 0

\* of three calls on one URL the first fetched, the second was served from
\* the cache, and the third was refused although its result is cached
C35_Witness ==
    /\ calls[1].pc = "done" /\ calls[1].result.success /\ extraction[1].fetched = 1
    /\ calls[2].pc = "done" /\ calls[2].result.success /\ extraction[2].hit
    /\ calls[3].pc = "done" /\ ~calls[3].admitted
    /\ calls[3].result.error.kind = "RateLimit"
    /\ SameRequest(1, 3) /\ SameRequest(2, 3)
    /\ \E i \in DOMAIN cache :
          cache[i].key = CacheKeyOf(3) /\ now - cache[i].value.timestamp < ttl
    /\ Len(requests[hostname(calls[3].url)]) = maxRequests

(***************************************************************************)
(* C36  every call resolves                                                 *)
(***************************************************************************)
\* the extraction that call c awaits is reading the response body
ReadingBody(c) ==
    calls[c].waitsFor # 0 /\ extraction[calls[c].waitsFor].phase = "reading"

\* C36: whatever the server does, every extract() call that has been issued
\* returns in the end, the callers awaiting a shared extraction included, and
\* the in-flight map is empty again in the end.
C36_EveryCallResolves ==
    /\ \A c \in 1..TimeoutCalls : Outstanding(calls[c]) ~> Returned(c)
    /\ (pendingExtractions # << >>) ~> (pendingExtractions = << >>)

\* what the timer does give: a call returns, or the extraction it awaits has
\* got its response and is reading the body, which no timer bounds
C36_ResolvesOrReadsBody ==
    \A c \in 1..TimeoutCalls : Outstanding(calls[c]) ~> (Returned(c) \/ ReadingBody(c))

\* both calls wait for one extraction that reads a body
C36_Hanging ==
    /\ calls[1].pc = "awaitOwn" /\ calls[2].pc = "awaitShared"
    /\ ReadingBody(1) /\ ReadingBody(2)
    /\ pendingExtractions # << >>
    /\ now = MaxTime

(***************************************************************************)
(* C37  results and lifecycle events                                        *)
(***************************************************************************)
\* the invocations of the listener of that name that call c has made
Heard(c, name) == {i \in DOMAIN calls[c].heard : calls[c].heard[i].name = name}
Times(c, name) == Cardinality(Heard(c, name))
LastHeard(c) == calls[c].heard[Len(calls[c].heard)]

\* the call was made with listeners and has returned a result
ReturnedWithListeners(c) == calls[c].events /\ calls[c].pc = "done"

\* C37 as stated: a call made with listeners has invoked onStart exactly
\* once; when it returns success it has invoked onComplete exactly once, with
\* the returned content; when it returns failure it has invoked onError
\* exactly once, with the returned error; it never invokes both.
C37_Original ==
    \A c \in CallIds :
        ReturnedWithListeners(c) =>
            /\ Times(c, "onStart") = 1
            /\ calls[c].result.success =>
                  /\ Times(c, "onComplete") = 1
                  /\ \A i \in Heard(c, "onComplete") :
                        calls[c].heard[i].content = calls[c].result.data
            /\ ~calls[c].result.success =>
                  /\ Times(c, "onError") = 1
                  /\ \A i \in Heard(c, "onError") :
                        calls[c].heard[i].error = calls[c].result.error
            /\ ~(Times(c, "onComplete") > 0 /\ Times(c, "onError") > 0)

\* C37 (amended): for a call made with listeners that returns a result,
\* onStart has been invoked once by extract if the URL is well formed and the
\* rate limiter admitted the call and not at all otherwise, once by
\* extractFromDocument, and once or twice by extractFromHTML (twice whenever
\* it succeeds); a success has invoked no onError and has invoked onComplete
\* once, last and with the returned content, except that an extract call that
\* joined an in-flight extraction invokes no onComplete; a failure has invoked
\* onError once, last and with the returned error, and has invoked onComplete
\* before it exactly when the returned error is the one onComplete threw.
C37_Lifecycle ==
    \A c \in CallIds :
        ReturnedWithListeners(c) =>
            LET call == calls[c]
                joined == call.entry = "extract" /\ call.waitsFor # c IN
            /\ call.entry = "extract" =>
                  Times(c, "onStart") = IF ValidUrl(call.url) /\ call.admitted THEN 1 ELSE 0
            /\ call.entry = "extractFromDocument" => Times(c, "onStart") = 1
            /\ call.entry = "extractFromHTML" =>
                  /\ Times(c, "onStart") \in {1, 2}
                  /\ call.result.success => Times(c, "onStart") = 2
            /\ call.result.success =>
                  /\ Times(c, "onError") = 0
                  /\ Times(c, "onComplete") = IF joined THEN 0 ELSE 1
                  /\ ~joined => LastHeard(c) = OnComplete(call.result.data)
            /\ ~call.result.success =>
                  /\ Times(c, "onError") = 1
                  /\ LastHeard(c) = OnError(call.result.error)
                  /\ Times(c, "onComplete") =
                        IF call.result.error = Err("Listener", "onComplete") THEN 1 ELSE 0

\* an extract call whose onComplete threw has heard onStart, onComplete and
\* onError and returned the failure, an extract call on a malformed URL has
\* heard onError only, and an extractFromHTML call has succeeded after two
\* onStart
C37_Witness ==
    \E c, d, h \in CallIds :
        /\ ReturnedWithListeners(c) /\ calls[c].entry = "extract"
        /\ Times(c, "onStart") = 1 /\ Times(c, "onComplete") = 1 /\ Times(c, "onError") = 1
        /\ ReturnedWithListeners(d) /\ calls[d].url = BadUrl
        /\ Len(calls[d].heard) = 1
        /\ ReturnedWithListeners(h) /\ calls[h].entry = "extractFromHTML"
        /\ calls[h].result.success /\ Times(h, "onStart") = 2

(***************************************************************************)
(* C38  getRemainingRequests and checkLimit                                 *)
(***************************************************************************)
\* the admitted checkLimit calls on key k before position i of the history
\* that lie less than windowMs before time t
AdmittedInWindow(i, k, t) ==
    {j \in 1..(i - 1) : /\ rlLog[j].op = "check" /\ rlLog[j].key = k /\ rlLog[j].ok
                        /\ t - rlLog[j].time < windowMs}

\* C38: getRemainingRequests agrees with checkLimit: every answer is
\* maxRequests minus the number of admitted timestamps of the key in the
\* trailing window, and never below 0; at every time and for every key it is
\* greater than 0 exactly when a checkLimit issued at that time returns true;
\* and an admitted checkLimit lowers it by exactly one.
C38_RemainingAgrees ==
    /\ \A i \in DOMAIN rlLog :
          rlLog[i].op \in {"remaining", "info"} =>
              LET used == Cardinality(AdmittedInWindow(i, rlLog[i].key, rlLog[i].time)) IN
              /\ rlLog[i].remaining >= 0
              /\ rlLog[i].remaining = IF used < maxRequests THEN maxRequests - used ELSE 0
    /\ \A k \in LimiterKeys :
          LET before == getRemainingRequests(requests, k, now)
              r == checkLimit(requests, k, now) IN
          /\ before > 0 <=> r.ok
          /\ r.ok => getRemainingRequests(r.requests, k, now) = before - 1
          /\ ~r.ok => getRemainingRequests(r.requests, k, now) = 0
    /\ \A i \in DOMAIN rlLog :
          (/\ i > 1
           /\ rlLog[i].op = "check" /\ rlLog[i - 1].op = "remaining"
           /\ rlLog[i].key = rlLog[i - 1].key /\ rlLog[i].time = rlLog[i - 1].time)
          => (rlLog[i].ok <=> rlLog[i - 1].remaining > 0)

\* a key was queried with one request left, admitted at once and queried again
\* with none left, and a checkLimit on it is refused now
C38_Witness ==
    \E i \in DOMAIN rlLog :
        /\ i + 2 \in DOMAIN rlLog
        /\ \A m \in {i + 1, i + 2} :
              rlLog[m].key = rlLog[i].key /\ rlLog[m].time = rlLog[i].time
        /\ rlLog[i].op = "remaining" /\ rlLog[i].remaining = 1
        /\ rlLog[i + 1].op = "check" /\ rlLog[i + 1].ok
        /\ rlLog[i + 2].op = "remaining" /\ rlLog[i + 2].remaining = 0
        /\ now = rlLog[i].time
        /\ ~checkLimit(requests, rlLog[i].key, now).ok

(***************************************************************************)
(* C39  the chunking loop of extractBatch                                   *)
(***************************************************************************)
\* the call has left its chunking loop with the list cut into groups
Chunked == batch.pc \in {"waiting", "done"}

\* C39: extractBatch returns for every finite URL list and every integer
\* concurrency, zero and negative values included, provided each extraction
\* resolves: a call that has been made eventually returns its results.
C39_BatchReturns == (batch.pc = "chunking") ~> (batch.pc = "done")

\* what holds: a call with a concurrency of 1 or more, or with no URL,
\* returns, and no other call leaves the chunking loop
C39_PositiveReturns ==
    /\ (batch.pc = "chunking" /\ (batch.concurrency > 0 \/ batch.urls = << >>))
           ~> (batch.pc = "done")
    /\ [](Chunked => batch.concurrency > 0 \/ batch.urls = << >>)

\* a call with concurrency 0 has pushed empty chunks until the heap was full
C39_Stuck ==
    /\ batch.pc \in {"aborted", "rejected"}
    /\ batch.concurrency = 0
    /\ batch.i = 0
    /\ \A g \in DOMAIN batch.chunks : batch.chunks[g] = << >>

====
